---------------------------- MODULE Spec2Model ----------------------------
(***************************************************************************)
(* Model of the traffic microsimulation core:                              *)
(*   - traffic_lights/traffic_lights.py   TrafficLight, TrafficLightSystem *)
(*   - city_modeling/networkx_graph.py    CityGraph                        *)
(*   - traffic_generation/poisson_traffic.py  TrafficGenerator             *)
(*   - legacy_simulation/simulation.py    TrafficSimulation                *)
(*                                                                         *)
(* Numbers.  The program computes in Python floats.  The model computes    *)
(* exactly, on integers: every time (durations, cycle times, clocks, time  *)
(* steps, travel times) is an integer count of one time quantum, and       *)
(* SimulationSpeed (0.05 s, the smallest step of the program) is one       *)
(* quantum.  Comparison, addition, modulo and math.isclose are scale free, *)
(* so the quantum is only a unit.  Rounding of floats is not modelled.     *)
(* The congestion factor 1 + 0.15 * (flow / capacity)^4 is kept as the     *)
(* pair of its whole part and of the coefficient of e = 0.15 / capacity^4  *)
(* (see EpsNumber below).                                                  *)
(***************************************************************************)
EXTENDS Integers, Sequences, FiniteSets, TLC

\* ------------------------------------------------------------------------
\* Units and bounds
\* ------------------------------------------------------------------------

\* simulation.py:42  self.simulation_speed = 0.05 (seconds): the time quantum
SimulationSpeed == 1

\* one second, in quanta (1 / 0.05)
Second == 20 * SimulationSpeed

\* simulation.py:43  self.vehicle_speed_factor = 2.0
vehicle_speed_factor == 2

\* math.isclose(a, b) default rel_tol = 1e-09, as its inverse
RelTolInv == 1000000000

\* longest phase list drawn for a TrafficLight
MaxPhases == 2

\* largest cycle_count a TrafficLight is driven to by direct update calls
MaxCycleCount == 2

Abs(x) == IF x < 0 THEN -x ELSE x

Max(a, b) == IF a >= b THEN a ELSE b

\* ------------------------------------------------------------------------
\* Intersections and directed edges (start, end)
\* ------------------------------------------------------------------------

Nodes == {1, 2, 3}

AllEdges == {e \in Nodes \X Nodes : e[1] # e[2]}

\* the two movements the phases of the signal scenarios refer to
EdgeA == <<2, 3>>

EdgeB == <<2, 1>>

\* None
None == 0

\* ------------------------------------------------------------------------
\* TrafficLight (traffic_lights.py)
\* ------------------------------------------------------------------------

\* sum(phase['duration'] for phase in traffic_light.phases)
RECURSIVE SumDurations(_)
SumDurations(phases) ==
    IF phases = <<>> THEN 0
    ELSE phases[1].duration + SumDurations(Tail(phases))

\* math.isclose(a, b): abs(a-b) <= max(rel_tol * max(abs(a), abs(b)), 0.0).
\* On integers, d <= m / 10^9 is the same as d <= floor(m / 10^9).
IsClose(a, b) ==
    Abs(a - b) <= Max(Abs(a), Abs(b)) \div RelTolInv

\* TrafficLight.__init__: the object after construction
NewLight(intersection_id, cycle_time) ==
    [intersection_id |-> intersection_id,
     cycle_time      |-> cycle_time,
     current_time    |-> 0,
     phases          |-> <<>>,
     cycle_count     |-> 0]

\* TrafficLight.add_phase
LightAddPhase(light, allowed_edges, duration) ==
    [light EXCEPT !.phases =
        Append(@, [allowed_edges |-> allowed_edges, duration |-> duration])]

\* LightUpdate moving the first phase to the end of the list on a wrap
LightUpdateRotating(light, dt) ==
    LET old_time == light.current_time
        new_time == (light.current_time + dt) % light.cycle_time
        wrapped  == old_time > new_time
    IN  [light EXCEPT !.current_time = new_time,
                      !.cycle_count  = IF wrapped THEN @ + 1 ELSE @,
                      !.phases = IF wrapped /\ @ # <<>>
                                 THEN Append(Tail(@), Head(@)) ELSE @]

\* LightUpdate starting the cycle again at 0 when the clock reaches cycle_time
LightUpdateReset(light, dt) ==
    LET old_time == light.current_time
        sum      == light.current_time + dt
        new_time == IF sum >= light.cycle_time THEN 0 ELSE sum
    IN  [light EXCEPT !.current_time = new_time,
                      !.cycle_count  = IF old_time > new_time THEN @ + 1 ELSE @]

\* LightUpdate wrapping only when the clock goes past cycle_time
LightUpdateLate(light, dt) ==
    LET old_time == light.current_time
        sum      == light.current_time + dt
        new_time == IF sum > light.cycle_time THEN sum % light.cycle_time ELSE sum
    IN  [light EXCEPT !.current_time = new_time,
                      !.cycle_count  = IF old_time > new_time THEN @ + 1 ELSE @]

\* TrafficLight.update(time_step); cycle_time > 0 by construction
LightUpdate(light, dt) ==
    LET old_time == light.current_time
        new_time == (light.current_time + dt) % light.cycle_time
    IN  [light EXCEPT !.current_time = new_time,
                      !.cycle_count  = IF old_time > new_time THEN @ + 1 ELSE @]

\* ScanPhases with the interval of a phase closed at its end
RECURSIVE ScanPhasesClosed(_, _, _, _)
ScanPhasesClosed(phases, elapsed_time, current_time, edge) ==
    IF phases = <<>> THEN FALSE
    ELSE IF /\ elapsed_time <= current_time
            /\ current_time <= elapsed_time + phases[1].duration
         THEN edge \in phases[1].allowed_edges
         ELSE ScanPhasesClosed(Tail(phases), elapsed_time + phases[1].duration,
                               current_time, edge)

\* the loop of TrafficLight.is_green from a phase on: phases are the phases
\* still to scan, elapsed_time the durations summed so far
RECURSIVE ScanPhases(_, _, _, _)
ScanPhases(phases, elapsed_time, current_time, edge) ==
    IF phases = <<>> THEN FALSE
    ELSE IF /\ elapsed_time <= current_time
            /\ current_time < elapsed_time + phases[1].duration
         THEN edge \in phases[1].allowed_edges
         ELSE ScanPhases(Tail(phases), elapsed_time + phases[1].duration,
                         current_time, edge)

\* LightIsGreen without the test for a light that has no phases
LightIsGreenScanning(light, edge) ==
    ScanPhases(light.phases, 0, light.current_time, edge)

\* TrafficLight.is_green(edge)
LightIsGreen(light, edge) ==
    IF light.phases = <<>> THEN TRUE
    ELSE ScanPhases(light.phases, 0, light.current_time, edge)

\* Accepts letting in every light whose phases fit in the cycle
AcceptsShort(light) ==
    SumDurations(light.phases) <= light.cycle_time

\* Accepts letting every light in
AcceptsAll(light) == TRUE

\* TrafficLightSystem.add_traffic_light: the test that lets a light in
\* (not math.isclose(total_phase_duration, cycle_time) raises ValueError)
Accepts(light) ==
    IsClose(SumDurations(light.phases), light.cycle_time)

\* ------------------------------------------------------------------------
\* State
\* ------------------------------------------------------------------------

VARIABLES
    lights,               \* the TrafficLight objects created: object -> record
    traffic_lights,       \* TrafficLightSystem.traffic_lights:
                          \*   intersection id -> object, or None
    last_call,            \* the last call made on the signal classes and
                          \*   whether it raised ValueError
    city_graph,           \* the roads: edge -> attributes of the road
    vehicles,             \* TrafficSimulation.vehicles, the list of vehicles
    simulation_time,      \* TrafficSimulation.simulation_time
    traffic_light_cycles, \* TrafficSimulation.traffic_light_cycles
    pc,                   \* position in run_simulation / move_vehicles
    idx,                  \* position of the vehicle loop of move_vehicles
    intersections,        \* the nodes of the graph: id -> position
    generator,            \* the TrafficGenerator and the random draws it reads
    replay,               \* the first of two runs, kept to compare the second
    results               \* the list run_simulation fills and returns

signal_vars == <<lights, traffic_lights, last_call>>

sim_vars == <<city_graph, vehicles, simulation_time, traffic_light_cycles, pc, idx,
              intersections, generator, replay, results>>

vars == <<lights, traffic_lights, last_call, city_graph, vehicles,
          simulation_time, traffic_light_cycles, pc, idx,
          intersections, generator, replay, results>>

\* the registered light of an intersection (a record), for id in the dict
LightAt(id) == lights[traffic_lights[id]]

Registered == {id \in Nodes : traffic_lights[id] # None}

\* SystemIsGreen asking the light at the far node when the near node has none
SystemIsGreenEither(edge) ==
    IF edge[1] \in Registered
    THEN LightIsGreen(LightAt(edge[1]), edge)
    ELSE IF edge[2] \in Registered
         THEN LightIsGreen(LightAt(edge[2]), edge)
         ELSE TRUE

\* TrafficLightSystem.is_green(edge)
SystemIsGreen(edge) ==
    IF edge[1] \in Registered
    THEN LightIsGreen(LightAt(edge[1]), edge)
    ELSE TRUE

\* TrafficLightSystem.update(time_step): every registered light is updated.
\* Two ids registered to one object update that object twice.
RECURSIVE UpdateAll(_, _, _)
UpdateAll(heap, ids, dt) ==
    IF ids = {} THEN heap
    ELSE LET id == CHOOSE i \in ids : TRUE
             o  == traffic_lights[id]
         IN  UpdateAll([heap EXCEPT ![o] = LightUpdate(@, dt)], ids \ {id}, dt)

\* ------------------------------------------------------------------------
\* The signal classes driven through their public methods (SpecSignal)
\* ------------------------------------------------------------------------

\* the TrafficLight objects a client creates
SignalObjects == {1}

\* ids of the intersections the client puts lights at
SignalIds == {2}

\* a cycle long enough for the relative tolerance of math.isclose to be one
\* quantum
LongCycle == RelTolInv

\* cycle_time arguments drawn: valid ones, and 0 (rejected by __init__)
CycleTimes == {0, 2 * Second, 3 * Second, 60 * Second, LongCycle}

\* duration arguments drawn for a light of cycle_time ct
Durations(ct) ==
    IF ct = LongCycle THEN {LongCycle - 1, SimulationSpeed}
    ELSE IF ct = 60 * Second THEN {30 * Second}
    ELSE {0, Second, 2 * Second}

\* time_step arguments drawn for a light of cycle_time ct
Steps(ct) ==
    IF ct = LongCycle THEN {ct - 1, ct}
    ELSE IF ct = 60 * Second THEN {Second, 29 * Second, ct}
    ELSE {Second, ct}

\* allowed_edges arguments drawn
AllowedSets == {{EdgeA}, {EdgeB}}

Call(op, raised) == [op |-> op, raised |-> raised]

InitSim ==
    /\ city_graph = << >>
    /\ vehicles = <<>>
    /\ simulation_time = 0
    /\ traffic_light_cycles = 0
    /\ pc = "idle"
    /\ idx = 0
    /\ intersections = << >>
    /\ generator = None
    /\ replay = None
    /\ results = <<>>

InitSignal ==
    /\ lights = << >>
    /\ traffic_lights = [id \in Nodes |-> None]
    /\ last_call = Call("none", FALSE)
    /\ InitSim

\* TrafficLight(intersection_id, cycle_time)
NewTrafficLight(o, id, ct) ==
    /\ o \notin DOMAIN lights
    /\ IF ct <= 0
       THEN /\ last_call' = Call("TrafficLight", TRUE)
            /\ UNCHANGED <<lights, traffic_lights>>
       ELSE /\ lights' = lights @@ (o :> NewLight(id, ct))
            /\ last_call' = Call("TrafficLight", FALSE)
            /\ UNCHANGED traffic_lights
    /\ UNCHANGED sim_vars

\* light.add_phase(allowed_edges, duration)
AddPhase(o, allowed_edges, duration) ==
    /\ o \in DOMAIN lights
    /\ Len(lights[o].phases) < MaxPhases
    /\ duration <= 2 * lights[o].cycle_time - SumDurations(lights[o].phases)
    /\ lights' = [lights EXCEPT ![o] = LightAddPhase(@, allowed_edges, duration)]
    /\ last_call' = Call("add_phase", FALSE)
    /\ UNCHANGED traffic_lights
    /\ UNCHANGED sim_vars

\* system.add_traffic_light(light)
AddTrafficLight(o) ==
    /\ o \in DOMAIN lights
    /\ IF Accepts(lights[o])
       THEN /\ traffic_lights' =
                   [traffic_lights EXCEPT ![lights[o].intersection_id] = o]
            /\ last_call' = Call("add_traffic_light", FALSE)
       ELSE /\ last_call' = Call("add_traffic_light", TRUE)
            /\ UNCHANGED traffic_lights
    /\ UNCHANGED lights
    /\ UNCHANGED sim_vars

\* light.update(dt), on a light registered or not
TrafficLightUpdate(o, dt) ==
    /\ o \in DOMAIN lights
    /\ LightUpdate(lights[o], dt).cycle_count <= MaxCycleCount
    /\ lights' = [lights EXCEPT ![o] = LightUpdate(@, dt)]
    /\ last_call' = Call("update", FALSE)
    /\ UNCHANGED traffic_lights
    /\ UNCHANGED sim_vars

\* system.update(dt)
SystemUpdate(dt) ==
    /\ Registered # {}
    /\ \A id \in Registered :
          LightUpdate(LightAt(id), dt).cycle_count <= MaxCycleCount
    /\ lights' = UpdateAll(lights, Registered, dt)
    /\ last_call' = Call("system_update", FALSE)
    /\ UNCHANGED traffic_lights
    /\ UNCHANGED sim_vars

NextSignal ==
    \/ \E o \in SignalObjects, id \in SignalIds, ct \in CycleTimes :
          NewTrafficLight(o, id, ct)
    \/ \E o \in SignalObjects :
          /\ o \in DOMAIN lights
          /\ \E a \in AllowedSets, d \in Durations(lights[o].cycle_time) :
                AddPhase(o, a, d)
    \/ \E o \in SignalObjects : AddTrafficLight(o)
    \/ \E o \in SignalObjects :
          /\ o \in DOMAIN lights
          /\ \E dt \in Steps(lights[o].cycle_time) : TrafficLightUpdate(o, dt)
    \/ \E id \in Registered :
          \E dt \in Steps(LightAt(id).cycle_time) : SystemUpdate(dt)

SpecSignal == InitSignal /\ [][NextSignal]_vars


\* ------------------------------------------------------------------------
\* Numbers of the form whole + eps * e, e = 0.15 / capacity^4 of one road
\*
\* With capacity = lanes * 1800, e is below 1.5e-14: for the flows (a few
\* vehicles) and times (a few hundred quanta) of this model every eps part
\* is far below one quantum and the terms in e^2 are far below every eps
\* part, so the sign of a number is the sign of its whole part, or of its
\* eps part when the whole part is 0.
\* ------------------------------------------------------------------------

EpsNumber(whole, eps) == [whole |-> whole, eps |-> eps]

\* a - b
EpsSub(a, b) == EpsNumber(a.whole - b.whole, a.eps - b.eps)

\* x * f, x whole
EpsMul(x, f) == EpsNumber(x * f.whole, x * f.eps)

\* x / f for f = 1 + c * e:  x / (1 + c * e) = x - x * c * e + ...
EpsDiv(x, f) == EpsNumber(x, -(x * f.eps))

\* a <= 0
EpsLeqZero(a) == a.whole < 0 \/ (a.whole = 0 /\ a.eps <= 0)

\* a <= b
EpsLeq(a, b) == EpsLeqZero(EpsSub(a, b))

\* ------------------------------------------------------------------------
\* CityGraph (networkx_graph.py)
\* ------------------------------------------------------------------------

\* AddRoad with the capacity of one lane whatever the number of lanes
AddRoadOneLane(length, speed_limit, lanes) ==
    [length      |-> length,
     speed_limit |-> speed_limit,
     lanes       |-> lanes,
     travel_time |-> (length * 36 * Second) \div (speed_limit * 10),
     capacity    |-> 1800,
     current_flow |-> 0]

\* CityGraph.add_road: the attributes stored for a road.  length in metres,
\* speed_limit in km/h; travel_time = length / (speed_limit / 3.6) seconds,
\* here in quanta (the arguments drawn make the division exact)
AddRoad(length, speed_limit, lanes) ==
    [length      |-> length,
     speed_limit |-> speed_limit,
     lanes       |-> lanes,
     travel_time |-> (length * 36 * Second) \div (speed_limit * 10),
     capacity    |-> lanes * 1800,
     current_flow |-> 0]

\* the edges of a graph
Edges(graph) == DOMAIN graph

\* ------------------------------------------------------------------------
\* TrafficGenerator (poisson_traffic.py)
\* ------------------------------------------------------------------------

\* current_edge = None
NoEdge == <<>>

\* the simple paths of graph from node s to node d, as node sequences
SimplePaths(graph, s, d) ==
    {p \in UNION {[1..n -> Nodes] : n \in 2..Cardinality(Nodes)} :
        /\ p[1] = s
        /\ p[Len(p)] = d
        /\ \A i, j \in 1..Len(p) : i # j => p[i] # p[j]
        /\ \A i \in 1..(Len(p) - 1) : <<p[i], p[i + 1]>> \in Edges(graph)}

\* the sum of travel_time along a path
RECURSIVE PathTime(_, _)
PathTime(graph, p) ==
    IF Len(p) < 2 THEN 0
    ELSE graph[<<p[1], p[2]>>].travel_time + PathTime(graph, Tail(p))

\* Route by the number of roads instead of the travel time
RouteFewestRoads(graph, s, d) ==
    LET paths == SimplePaths(graph, s, d)
    IN  IF paths = {} THEN <<s>>
        ELSE CHOOSE p \in paths : \A q \in paths : Len(p) <= Len(q)

\* Route with a route straight to the destination when there is no path
RouteDirect(graph, s, d) ==
    LET paths == SimplePaths(graph, s, d)
    IN  IF paths = {} THEN <<s, d>>
        ELSE CHOOSE p \in paths :
                \A q \in paths : PathTime(graph, p) <= PathTime(graph, q)

\* nx.shortest_path(graph, source, target, weight="travel_time"), and
\* [start] on NetworkXNoPath
Route(graph, s, d) ==
    LET paths == SimplePaths(graph, s, d)
    IN  IF paths = {} THEN <<s>>
        ELSE CHOOSE p \in paths :
                \A q \in paths : PathTime(graph, p) <= PathTime(graph, q)

\* progress_on_edge = 1 - remaining / total, kept as the pair
Progress(remaining, total) == [remaining |-> remaining, total |-> total]

\* progress_on_edge = 0
ProgressZero == Progress(EpsNumber(1, 0), EpsNumber(1, 0))

\* the record generate_vehicles appends for an arrival at tick t (seconds)
GeneratedVehicle(id, graph, start, destination, t) ==
    [id                    |-> id,
     start                 |-> start,
     destination           |-> destination,
     current_position      |-> start,
     entry_time            |-> t * Second,
     route                 |-> Route(graph, start, destination),
     completion_time       |-> -1,
     total_wait_time       |-> 0,
     current_edge          |-> NoEdge,
     progress_on_edge      |-> ProgressZero,
     travel_time_remaining |-> EpsNumber(0, 0),
     last_position         |-> None]

\* ------------------------------------------------------------------------
\* TrafficSimulation (legacy_simulation/simulation.py)
\* ------------------------------------------------------------------------

\* config['time_step'] = 1 second
time_step == 1 * Second

\* the loop of run_simulation runs while simulation_time < total_time
MaxTicks == 11

total_time == MaxTicks * time_step

\* route[-1]
LastNode(route) == route[Len(route)]

\* route.index(node) + 1, counting from 1: the position after the first
\* occurrence of node
NextNodeIndex(route, node) ==
    1 + CHOOSE i \in 1..Len(route) :
            /\ route[i] = node
            /\ \A j \in 1..(i - 1) : route[j] # node

\* the congestion factor of move_vehicles, 1 + 0.15 * (flow / capacity)^4
\* when capacity > 0 and 1.0 otherwise: 1 + flow^4 * e
congestion_factor(road) ==
    IF road.capacity > 0
    THEN EpsNumber(1, road.current_flow * road.current_flow
                        * road.current_flow * road.current_flow)
    ELSE EpsNumber(1, 0)

\* CountedFlows without the reset of lines 56-57
CountedFlowsNoReset(graph, vs) ==
    [e \in DOMAIN graph |->
        [graph[e] EXCEPT !.current_flow =
            @ + Cardinality({i \in 1..Len(vs) : vs[i].current_edge = e})]]

\* lines 55-63: flows reset to 0, then one count per vehicle with an edge
CountedFlows(graph, vs) ==
    [e \in DOMAIN graph |->
        [graph[e] EXCEPT !.current_flow =
            Cardinality({i \in 1..Len(vs) : vs[i].current_edge = e})]]

\* lines 164-168: the completion check that ends the body of the loop
CompletionCheck(vehicle) ==
    IF /\ vehicle.current_position = LastNode(vehicle.route)
       /\ vehicle.completion_time = -1
    THEN [vehicle EXCEPT !.completion_time = simulation_time]
    ELSE vehicle

\* OnEdge taking the vehicle to the end of its route when it clears the road
OnEdgeSkipping(vehicle) ==
    LET road      == city_graph[vehicle.current_edge]
        factor    == congestion_factor(road)
        remaining == EpsSub(vehicle.travel_time_remaining,
                            EpsDiv(time_step * vehicle_speed_factor, factor))
    IN  IF EpsLeqZero(remaining)
        THEN [vehicle EXCEPT !.travel_time_remaining = remaining,
                             !.current_position = LastNode(vehicle.route),
                             !.current_edge = NoEdge,
                             !.progress_on_edge = ProgressZero]
        ELSE [vehicle EXCEPT !.travel_time_remaining = remaining,
                             !.progress_on_edge =
                                 Progress(remaining, EpsMul(road.travel_time, factor))]

\* OnEdge counting the time on the road as time waited
OnEdgeWaiting(vehicle) ==
    LET road      == city_graph[vehicle.current_edge]
        factor    == congestion_factor(road)
        remaining == EpsSub(vehicle.travel_time_remaining,
                            EpsDiv(time_step * vehicle_speed_factor, factor))
    IN  IF EpsLeqZero(remaining)
        THEN [vehicle EXCEPT !.travel_time_remaining = remaining,
                             !.current_position = vehicle.current_edge[2],
                             !.current_edge = NoEdge,
                             !.progress_on_edge = ProgressZero,
                             !.total_wait_time = @ + time_step]
        ELSE [vehicle EXCEPT !.travel_time_remaining = remaining,
                             !.progress_on_edge =
                                 Progress(remaining, EpsMul(road.travel_time, factor)),
                             !.total_wait_time = @ + time_step]

\* OnEdge adding the step to the time remaining
OnEdgeAdding(vehicle) ==
    LET road      == city_graph[vehicle.current_edge]
        factor    == congestion_factor(road)
        remaining == EpsSub(vehicle.travel_time_remaining,
                            EpsDiv(-(time_step * vehicle_speed_factor), factor))
    IN  [vehicle EXCEPT !.travel_time_remaining = remaining,
                        !.progress_on_edge =
                            Progress(remaining, EpsMul(road.travel_time, factor))]

\* lines 82-108: a vehicle between nodes
OnEdge(vehicle) ==
    LET road      == city_graph[vehicle.current_edge]
        factor    == congestion_factor(road)
        remaining == EpsSub(vehicle.travel_time_remaining,
                            EpsDiv(time_step * vehicle_speed_factor, factor))
    IN  IF EpsLeqZero(remaining)
        THEN [vehicle EXCEPT !.travel_time_remaining = remaining,
                             !.current_position = vehicle.current_edge[2],
                             !.current_edge = NoEdge,
                             !.progress_on_edge = ProgressZero]
        ELSE [vehicle EXCEPT !.travel_time_remaining = remaining,
                             !.progress_on_edge =
                                 Progress(remaining, EpsMul(road.travel_time, factor))]

\* EnterEdge with the free-flow travel time of the road
EnterEdgeFreeFlow(vehicle, edge) ==
    LET road == city_graph[edge]
    IN  [vehicle EXCEPT !.current_edge = edge,
                        !.travel_time_remaining = EpsNumber(road.travel_time, 0),
                        !.progress_on_edge = ProgressZero]

\* EnterEdge moving the vehicle to the far node at once
EnterEdgeJumping(vehicle, edge) ==
    LET road == city_graph[edge]
    IN  [vehicle EXCEPT !.current_edge = edge,
                        !.current_position = edge[2],
                        !.travel_time_remaining =
                            EpsMul(road.travel_time, congestion_factor(road)),
                        !.progress_on_edge = ProgressZero]

\* EnterEdge clearing the node position
EnterEdgeClearing(vehicle, edge) ==
    LET road == city_graph[edge]
    IN  [vehicle EXCEPT !.current_edge = edge,
                        !.current_position = None,
                        !.travel_time_remaining =
                            EpsMul(road.travel_time, congestion_factor(road)),
                        !.progress_on_edge = ProgressZero]

\* lines 153-156: the vehicle starts on edge
EnterEdge(vehicle, edge) ==
    LET road == city_graph[edge]
    IN  [vehicle EXCEPT !.current_edge = edge,
                        !.travel_time_remaining =
                            EpsMul(road.travel_time, congestion_factor(road)),
                        !.progress_on_edge = ProgressZero]

\* MayEnter without the traffic light check
MayEnterAlways(edge) == TRUE

\* line 143: the test that lets a vehicle at a node onto edge
MayEnter(edge) == SystemIsGreen(edge)

\* MovedVehicle without the entry gate of lines 67-71
MovedVehicleEarly(vehicle) ==
    LET route == vehicle.route
    IN  IF vehicle.current_position = LastNode(route)
        THEN [vehicle EXCEPT !.last_position = vehicle.current_position]
        ELSE IF vehicle.current_edge # NoEdge
        THEN CompletionCheck(OnEdge(vehicle))
        ELSE IF vehicle.completion_time # -1 THEN vehicle
        ELSE LET next_node_index ==
                     NextNodeIndex(route, vehicle.current_position)
             IN  IF next_node_index <= Len(route)
                 THEN LET edge == <<vehicle.current_position, route[next_node_index]>>
                      IN  IF MayEnter(edge)
                          THEN CompletionCheck(EnterEdge(vehicle, edge))
                          ELSE LET waiting ==
                                       [vehicle EXCEPT !.total_wait_time = @ + time_step]
                               IN  IF simulation_time % (5 * Second) = 0
                                   THEN waiting
                                   ELSE CompletionCheck(waiting)
                 ELSE CompletionCheck(vehicle)

\* lines 66-168: the body of the vehicle loop for one vehicle
MovedVehicle(vehicle) ==
    LET route == vehicle.route
    IN  IF vehicle.entry_time > simulation_time THEN vehicle
        ELSE IF vehicle.current_position = LastNode(route)
        THEN [vehicle EXCEPT !.last_position = vehicle.current_position]
        ELSE IF vehicle.current_edge # NoEdge
        THEN CompletionCheck(OnEdge(vehicle))
        ELSE IF vehicle.completion_time # -1 THEN vehicle
        ELSE LET next_node_index ==
                     NextNodeIndex(route, vehicle.current_position)
             IN  IF next_node_index <= Len(route)
                 THEN LET edge == <<vehicle.current_position, route[next_node_index]>>
                      IN  IF MayEnter(edge)
                          THEN CompletionCheck(EnterEdge(vehicle, edge))
                          ELSE LET waiting ==
                                       [vehicle EXCEPT !.total_wait_time = @ + time_step]
                               IN  IF simulation_time % (5 * Second) = 0
                                   THEN waiting
                                   ELSE CompletionCheck(waiting)
                 ELSE CompletionCheck(vehicle)

\* sum(self.traffic_light_system.get_cycle_counts().values())
RECURSIVE SumCycleCounts(_, _)
SumCycleCounts(heap, ids) ==
    IF ids = {} THEN 0
    ELSE LET id == CHOOSE i \in ids : TRUE
         IN  heap[traffic_lights[id]].cycle_count + SumCycleCounts(heap, ids \ {id})

\* move_vehicles, lines 51-53: the lights advance by simulation_speed
UpdateTrafficLights ==
    /\ pc = "update_lights"
    /\ lights' = UpdateAll(lights, Registered, SimulationSpeed)
    /\ traffic_light_cycles' =
          SumCycleCounts(UpdateAll(lights, Registered, SimulationSpeed), Registered)
    /\ pc' = "count_flows"
    /\ UNCHANGED <<intersections, generator, replay, results,
                   traffic_lights, last_call, city_graph, vehicles,
                   simulation_time, idx>>

\* move_vehicles, lines 55-63
CountFlows ==
    /\ pc = "count_flows"
    /\ city_graph' = CountedFlows(city_graph, vehicles)
    /\ pc' = "move"
    /\ idx' = 1
    /\ UNCHANGED <<intersections, generator, replay, results,
                   lights, traffic_lights, last_call, vehicles,
                   simulation_time, traffic_light_cycles>>

\* MoveVehicle taking a vehicle off the list once it has completed
MoveVehicleDropping ==
    /\ pc = "move"
    /\ idx <= Len(vehicles)
    /\ LET moved == MovedVehicle(vehicles[idx])
       IN  IF moved.completion_time # -1
           THEN /\ vehicles' = SubSeq(vehicles, 1, idx - 1)
                                  \o SubSeq(vehicles, idx + 1, Len(vehicles))
                /\ idx' = idx
           ELSE /\ vehicles' = [vehicles EXCEPT ![idx] = moved]
                /\ idx' = idx + 1
    /\ UNCHANGED <<intersections, generator, replay, results,
                   lights, traffic_lights, last_call, city_graph,
                   simulation_time, traffic_light_cycles, pc>>

\* MoveVehicle running the body of the loop twice on the vehicle
MoveVehicleTwice ==
    /\ pc = "move"
    /\ idx <= Len(vehicles)
    /\ vehicles' = [vehicles EXCEPT ![idx] = MovedVehicle(MovedVehicle(@))]
    /\ idx' = idx + 1
    /\ UNCHANGED <<intersections, generator, replay, results,
                   lights, traffic_lights, last_call, city_graph,
                   simulation_time, traffic_light_cycles, pc>>

\* MoveVehicle taking a vehicle off the count of the road it leaves
MoveVehicleReleasing ==
    /\ pc = "move"
    /\ idx <= Len(vehicles)
    /\ LET moved == MovedVehicle(vehicles[idx])
       IN  /\ vehicles' = [vehicles EXCEPT ![idx] = moved]
           /\ city_graph' =
                 IF vehicles[idx].current_edge # NoEdge /\ moved.current_edge = NoEdge
                 THEN [city_graph EXCEPT ![vehicles[idx].current_edge].current_flow = @ - 1]
                 ELSE city_graph
    /\ idx' = idx + 1
    /\ UNCHANGED <<intersections, generator, replay, results,
                   lights, traffic_lights, last_call,
                   simulation_time, traffic_light_cycles, pc>>

\* MoveVehicle counting a vehicle on its road as soon as it starts on it
MoveVehicleCounting ==
    /\ pc = "move"
    /\ idx <= Len(vehicles)
    /\ LET moved == MovedVehicle(vehicles[idx])
       IN  /\ vehicles' = [vehicles EXCEPT ![idx] = moved]
           /\ city_graph' =
                 IF vehicles[idx].current_edge = NoEdge /\ moved.current_edge # NoEdge
                 THEN [city_graph EXCEPT ![moved.current_edge].current_flow = @ + 1]
                 ELSE city_graph
    /\ idx' = idx + 1
    /\ UNCHANGED <<intersections, generator, replay, results,
                   lights, traffic_lights, last_call,
                   simulation_time, traffic_light_cycles, pc>>

\* move_vehicles, lines 66-168: one turn of the vehicle loop
MoveVehicle ==
    /\ pc = "move"
    /\ idx <= Len(vehicles)
    /\ vehicles' = [vehicles EXCEPT ![idx] = MovedVehicle(@)]
    /\ idx' = idx + 1
    /\ UNCHANGED <<intersections, generator, replay, results,
                   lights, traffic_lights, last_call, city_graph,
                   simulation_time, traffic_light_cycles, pc>>

\* TrafficSimulation(city_graph, vehicles, config): the run is not drawn, and
\* without a window there is no event that ends the loop
visualize == FALSE

\* run_simulation, lines 324-337: the record of the tick ending at time,
\* appended only when the run is drawn (the average travel time, the density
\* and the light states of the record are read from the same state)
TickRecord(time) ==
    [time |-> time,
     vehicles_in_transit |->
        Cardinality({i \in 1..Len(vehicles) :
                        /\ vehicles[i].entry_time <= time
                        /\ vehicles[i].current_position
                              # LastNode(vehicles[i].route)})]

\* run_simulation, lines 310-337: after move_vehicles the lights advance by
\* time_step, simulation_time advances, the record of the tick is kept when
\* the run is drawn, and the loop test is made
AdvanceTimeStep ==
    /\ pc = "move"
    /\ idx > Len(vehicles)
    /\ lights' = UpdateAll(lights, Registered, time_step)
    /\ simulation_time' = simulation_time + time_step
    /\ pc' = IF simulation_time + time_step < total_time
             THEN "update_lights" ELSE "done"
    /\ idx' = 0
    /\ results' = IF visualize
                  THEN Append(results, TickRecord(simulation_time'))
                  ELSE results
    /\ UNCHANGED <<intersections, generator,
                   traffic_lights, last_call, city_graph, vehicles,
                   traffic_light_cycles>>

\* the same in a single run
AdvanceTime ==
    /\ AdvanceTimeStep
    /\ UNCHANGED replay

\* ------------------------------------------------------------------------
\* The configurations the simulation is started from
\* ------------------------------------------------------------------------

\* most vehicles generated
MaxVehicles == 2

\* ticks t at which arrivals are drawn (entry_time = t)
EntryTicks == {0, 1}

\* the pairs of phase durations of the lights set up, in seconds
SetupSeconds == {<<1, 2>>, <<2, 1>>}

\* the 2-node network of the concrete scenarios: one road of 100 m at
\* 36 km/h (travel_time 10 s), 1 lane
TwoNodeNetwork ==
    [nodes |-> {1, 2},
     roads |-> (<<1, 2>> :> AddRoad(100, 36, 1))]

\* a line 1 - 2 - 3 with roads 1->2 (2 s), 2->3 (3 s), 2->1 (2 s)
LineNetwork ==
    [nodes |-> {1, 2, 3},
     roads |-> (<<1, 2>> :> AddRoad(20, 36, 1)) @@
               (<<2, 3>> :> AddRoad(30, 36, 2)) @@
               (<<2, 1>> :> AddRoad(20, 36, 1))]

Networks == {TwoNodeNetwork, LineNetwork}

\* a light built as main.setup_traffic_lights builds one: two phases
TwoPhaseLight(id, edges1, d1, edges2, d2) ==
    LightAddPhase(LightAddPhase(NewLight(id, d1 + d2), edges1, d1), edges2, d2)

\* the lights set up on a network: none on the 2-node network; on the line
\* any of a light at node 2 (2->3, then 2->1) and a light at node 1
\* (nothing for 2 s, then 1->2 for 1 s)
LightSetups(net) ==
    IF net = TwoNodeNetwork THEN {<< >>}
    ELSE LET at2 == {(2 :> TwoPhaseLight(2, {<<2, 3>>}, d[1] * Second,
                                            {<<2, 1>>}, d[2] * Second)) :
                        d \in SetupSeconds}
             at1 == {(1 :> TwoPhaseLight(1, {}, 2 * Second, {<<1, 2>>}, Second))}
         IN  {<< >>} \cup at2 \cup at1 \cup {a @@ b : a \in at2, b \in at1}

\* the vehicle lists generate_vehicles can produce on a network
VehicleLists(net) ==
    LET trips == {tr \in [start : net.nodes, destination : net.nodes, t : EntryTicks] :
                     tr.start # tr.destination}
        lists == UNION {[1..n -> trips] : n \in 1..MaxVehicles}
    IN  {[i \in 1..Len(l) |->
            GeneratedVehicle(i, net.roads, l[i].start, l[i].destination, l[i].t)] :
         l \in {x \in lists : \A i \in 1..(Len(x) - 1) : x[i].t <= x[i + 1].t}}

Init ==
    /\ \E net \in Networks :
          /\ city_graph = net.roads
          /\ intersections = [n \in net.nodes |-> <<n, 0>>]
          /\ vehicles \in VehicleLists(net)
          /\ \E setup \in LightSetups(net) :
                /\ \A o \in DOMAIN setup : Accepts(setup[o])
                /\ lights = setup
                /\ traffic_lights =
                      [id \in Nodes |-> IF id \in DOMAIN setup THEN id ELSE None]
    /\ last_call = Call("none", FALSE)
    /\ simulation_time = 0
    /\ traffic_light_cycles = 0
    /\ pc = IF 0 < total_time THEN "update_lights" ELSE "done"
    /\ idx = 0
    /\ generator = None
    /\ replay = None
    /\ results = <<>>

Next ==
    \/ UpdateTrafficLights
    \/ CountFlows
    \/ MoveVehicle
    \/ AdvanceTime

Spec == Init /\ [][Next]_vars

\* ------------------------------------------------------------------------
\* Heavy traffic: the same tick with flows that are whole multiples of the
\* capacity of the road
\*
\* generate_vehicles can append any number of vehicles for one tick.
\* Vehicles appended for the same tick with the same route are in the same
\* state after every tick (a tick moves a vehicle by its own fields and by
\* the flow counted at the start of the tick), so one record stands for a
\* platoon of LaneCapacity such vehicles.  With flows of 0, 1 or 2 platoons
\* on a road of one lane the congestion factor is 1, 23/20 or 68/20, and a
\* time is kept exactly as a whole number of 1/Fine quanta.
\* ------------------------------------------------------------------------

\* capacity = lanes * 1800: the vehicles of one platoon
LaneCapacity == 1800

\* the denominators 23 and 17 of the steps 2 / (23/20) and 2 / (68/20)
Fine == 23 * 17

\* flow_ratio = current_flow / capacity, a whole number here
flow_ratio(road) == road.current_flow \div road.capacity

\* congestion_factor = 1 + 0.15 * flow_ratio ** 4 = (20 + 3 * flow_ratio^4) / 20
\* when capacity > 0, and 1.0 otherwise
HeavyCongestionFactor(road) ==
    IF road.capacity > 0
    THEN [num |-> 20 + 3 * flow_ratio(road) * flow_ratio(road)
                         * flow_ratio(road) * flow_ratio(road),
          den |-> 20]
    ELSE [num |-> 1, den |-> 1]

\* lines 55-63 for platoons: each record on e counts LaneCapacity vehicles
HeavyCountedFlows(graph, vs) ==
    [e \in DOMAIN graph |->
        [graph[e] EXCEPT !.current_flow =
            LaneCapacity * Cardinality({i \in 1..Len(vs) : vs[i].current_edge = e})]]

\* progress_on_edge = 0 with the time remaining in 1/Fine quanta
HeavyProgressZero == Progress(Fine, 1)

\* lines 82-108 with the exact congestion factor; travel_time_remaining in
\* 1/Fine quanta, the total of line 107 in quanta
HeavyOnEdge(vehicle) ==
    LET road      == city_graph[vehicle.current_edge]
        factor    == HeavyCongestionFactor(road)
        remaining == vehicle.travel_time_remaining
                     - (time_step * vehicle_speed_factor * factor.den * Fine)
                           \div factor.num
    IN  IF remaining <= 0
        THEN [vehicle EXCEPT !.travel_time_remaining = remaining,
                             !.current_position = vehicle.current_edge[2],
                             !.current_edge = NoEdge,
                             !.progress_on_edge = HeavyProgressZero]
        ELSE [vehicle EXCEPT !.travel_time_remaining = remaining,
                             !.progress_on_edge =
                                 Progress(remaining,
                                          (road.travel_time * factor.num)
                                              \div factor.den)]

\* lines 153-156 with the exact congestion factor
HeavyEnterEdge(vehicle, edge) ==
    LET road   == city_graph[edge]
        factor == HeavyCongestionFactor(road)
    IN  [vehicle EXCEPT !.current_edge = edge,
                        !.travel_time_remaining =
                            (road.travel_time * factor.num * Fine) \div factor.den,
                        !.progress_on_edge = HeavyProgressZero]

\* lines 66-168 for a platoon
HeavyMovedVehicle(vehicle) ==
    LET route == vehicle.route
    IN  IF vehicle.entry_time > simulation_time THEN vehicle
        ELSE IF vehicle.current_position = LastNode(route)
        THEN [vehicle EXCEPT !.last_position = vehicle.current_position]
        ELSE IF vehicle.current_edge # NoEdge
        THEN CompletionCheck(HeavyOnEdge(vehicle))
        ELSE IF vehicle.completion_time # -1 THEN vehicle
        ELSE LET next_node_index ==
                     NextNodeIndex(route, vehicle.current_position)
             IN  IF next_node_index <= Len(route)
                 THEN LET edge == <<vehicle.current_position, route[next_node_index]>>
                      IN  IF MayEnter(edge)
                          THEN CompletionCheck(HeavyEnterEdge(vehicle, edge))
                          ELSE LET waiting ==
                                       [vehicle EXCEPT !.total_wait_time = @ + time_step]
                               IN  IF simulation_time % (5 * Second) = 0
                                   THEN waiting
                                   ELSE CompletionCheck(waiting)
                 ELSE CompletionCheck(vehicle)

\* move_vehicles, lines 55-63, for platoons
HeavyCountFlows ==
    /\ pc = "count_flows"
    /\ city_graph' = HeavyCountedFlows(city_graph, vehicles)
    /\ pc' = "move"
    /\ idx' = 1
    /\ UNCHANGED <<intersections, generator, replay, results,
                   lights, traffic_lights, last_call, vehicles,
                   simulation_time, traffic_light_cycles>>

\* move_vehicles, lines 66-168: one turn of the vehicle loop, for a platoon
HeavyMoveVehicle ==
    /\ pc = "move"
    /\ idx <= Len(vehicles)
    /\ vehicles' = [vehicles EXCEPT ![idx] = HeavyMovedVehicle(@)]
    /\ idx' = idx + 1
    /\ UNCHANGED <<intersections, generator, replay, results,
                   lights, traffic_lights, last_call, city_graph,
                   simulation_time, traffic_light_cycles, pc>>

\* the lengths in metres of the one road, at 36 km/h: 4 s and 10 s
HeavyLengths == {40, 100}

\* the ticks at which platoons arrive: a platoon alone on the road clears it
\* in the tick at 3 s (4 s road) or 6 s (10 s road)
HeavyTicks == {0, 2, 5}

\* the platoon lists: one or two platoons from node 1 to node 2
HeavyVehicleLists(graph) ==
    LET lists == UNION {[1..n -> HeavyTicks] : n \in 1..2}
    IN  {[i \in 1..Len(l) |->
            [GeneratedVehicle(i, graph, 1, 2, l[i]) EXCEPT
                !.travel_time_remaining = 0,
                !.progress_on_edge = HeavyProgressZero]] :
         l \in {x \in lists : \A i \in 1..(Len(x) - 1) : x[i] <= x[i + 1]}}

\* one road of one lane from 1 to 2, no traffic lights
InitHeavy ==
    /\ \E length \in HeavyLengths :
          /\ city_graph = (<<1, 2>> :> AddRoad(length, 36, 1))
          /\ intersections = [n \in {1, 2} |-> <<n, 0>>]
          /\ vehicles \in HeavyVehicleLists(<<1, 2>> :> AddRoad(length, 36, 1))
    /\ lights = << >>
    /\ traffic_lights = [id \in Nodes |-> None]
    /\ last_call = Call("none", FALSE)
    /\ simulation_time = 0
    /\ traffic_light_cycles = 0
    /\ pc = IF 0 < total_time THEN "update_lights" ELSE "done"
    /\ idx = 0
    /\ generator = None
    /\ replay = None
    /\ results = <<>>

NextHeavy ==
    \/ UpdateTrafficLights
    \/ HeavyCountFlows
    \/ HeavyMoveVehicle
    \/ AdvanceTime

SpecHeavy == InitHeavy /\ [][NextHeavy]_vars

\* ------------------------------------------------------------------------
\* TrafficGenerator.generate_vehicles, step by step
\*
\* The random draws are read from a tape fixed when the generator starts
\* (the state of the two random number generators after seeding): one
\* number per tick for np.random.poisson and one pair of list positions per
\* arrival for random.sample.
\* ------------------------------------------------------------------------

\* np.random.poisson with the number the generator yields without the rate
PoissonUnscaled(lam, draw) == draw

\* np.random.poisson(lam): 0 when lam is 0, else the number the tape holds
Poisson(lam, draw) == IF lam.num = 0 THEN 0 ELSE draw

\* list(self.city_graph.graph.nodes): the nodes in the order they were added
\* (by increasing id in the networks built here)
RECURSIVE NodeList(_)
NodeList(nodes) ==
    IF nodes = {} THEN <<>>
    ELSE LET first == CHOOSE n \in nodes : \A m \in nodes : n <= m
         IN  <<first>> \o NodeList(nodes \ {first})

\* TrafficGenerator.__init__; edge_nodes None and [] are both <<>> here: line
\* 11 tests the truth value of edge_nodes, which is false for both.  The
\* field edge_nodes keeps the argument; the object does not store it.
NewGenerator(nodes, arrival_rate, horizon, edge_nodes, tape) ==
    [arrival_rate     |-> [num |-> arrival_rate, den |-> 60],
     simulation_time  |-> horizon,
     entry_exit_nodes |-> IF edge_nodes # <<>> THEN edge_nodes ELSE NodeList(nodes),
     edge_nodes       |-> edge_nodes,
     t                |-> 0,
     drawn            |-> 0,
     tape             |-> tape]

\* random.sample reading the tape of another seed in the second run
SampleUnseeded(list, positions) ==
    IF replay.run = 2
    THEN <<list[positions[2]], list[positions[1]]>>
    ELSE <<list[positions[1]], list[positions[2]]>>

\* random.sample(self.entry_exit_nodes, 2): the elements at two different
\* positions of the list
Sample(list, positions) == <<list[positions[1]], list[positions[2]]>>

\* Arrivals with the id of line 35 taken once per tick
ArrivalsSameId(gen, graph, count, n) ==
    [k \in 1..n |->
        LET pair == Sample(gen.entry_exit_nodes, gen.tape.samples[gen.drawn + k])
        IN  GeneratedVehicle(count + 1, graph, pair[1], pair[2], gen.t)]

\* lines 22-46: the vehicles appended for tick t, n of them
Arrivals(gen, graph, count, n) ==
    [k \in 1..n |->
        LET pair == Sample(gen.entry_exit_nodes, gen.tape.samples[gen.drawn + k])
        IN  GeneratedVehicle(count + k, graph, pair[1], pair[2], gen.t)]

\* the test of line 16 letting a list of one node pass
TooFewNodesLoose(gen) == Len(gen.entry_exit_nodes) < 1

\* line 16: len(self.entry_exit_nodes) < 2
TooFewNodes(gen) == Len(gen.entry_exit_nodes) < 2

\* lines 16-17: generate_vehicles raises ValueError on fewer than 2 nodes
GenerateVehiclesBegin ==
    /\ pc = "generate"
    /\ IF TooFewNodes(generator)
       THEN /\ last_call' = Call("generate_vehicles", TRUE)
            /\ pc' = "failed"
       ELSE /\ pc' = "arrivals"
            /\ UNCHANGED last_call
    /\ UNCHANGED <<lights, traffic_lights, city_graph, vehicles, simulation_time,
                   traffic_light_cycles, idx, intersections, generator, replay, results>>

\* lines 19-46: one turn of the loop over the ticks
GenerateTick ==
    /\ pc = "arrivals"
    /\ generator.t < generator.simulation_time
    /\ LET n == Poisson(generator.arrival_rate,
                        generator.tape.arrivals[generator.t + 1])
       IN  /\ vehicles' = vehicles \o Arrivals(generator, city_graph, Len(vehicles), n)
           /\ generator' = [generator EXCEPT !.t = @ + 1, !.drawn = @ + n]
    /\ UNCHANGED <<lights, traffic_lights, last_call, city_graph, simulation_time,
                   traffic_light_cycles, pc, idx, intersections, replay, results>>

\* the loop is over: generate_vehicles returns
GenerateVehiclesEnd ==
    /\ pc = "arrivals"
    /\ generator.t >= generator.simulation_time
    /\ last_call' = Call("generate_vehicles", FALSE)
    /\ pc' = "generated"
    /\ UNCHANGED <<lights, traffic_lights, city_graph, vehicles, simulation_time,
                   traffic_light_cycles, idx, intersections, generator, replay, results>>

\* no intersection
EmptyNetwork ==
    [nodes |-> {},
     roads |-> << >>]

\* one intersection and no road
SingleNodeNetwork ==
    [nodes |-> {1},
     roads |-> << >>]

\* 1->3 directly (5 s) or by 1->2 (2 s) and 2->3 (2 s); 3->1 (5 s)
TriangleNetwork ==
    [nodes |-> {1, 2, 3},
     roads |-> (<<1, 3>> :> AddRoad(50, 36, 1)) @@
               (<<1, 2>> :> AddRoad(20, 36, 1)) @@
               (<<2, 3>> :> AddRoad(20, 36, 1)) @@
               (<<3, 1>> :> AddRoad(50, 36, 1))]

GeneratorNetworks ==
    {EmptyNetwork, SingleNodeNetwork, TwoNodeNetwork, LineNetwork, TriangleNetwork}

\* arrival_rate, vehicles per minute
ArrivalRates == {0, 30}

\* simulation_time of the generator, in ticks
Horizons == {0, 1, 2}

\* edge_nodes: not given (or empty), one node, or two different nodes
EdgeNodeLists(net) ==
    {<<>>} \cup {<<n>> : n \in net.nodes}
           \cup {<<nm[1], nm[2]>> : nm \in {x \in net.nodes \X net.nodes : x[1] # x[2]}}

RECURSIVE SumSeq(_)
SumSeq(q) == IF q = <<>> THEN 0 ELSE Head(q) + SumSeq(Tail(q))

\* the tapes: per tick a number of arrivals, at most MaxVehicles in all, and
\* one pair of different positions of a list of len nodes for each of them
Tapes(horizon, len) ==
    LET arrivals  == {a \in [1..horizon -> 0..MaxVehicles] : SumSeq(a) <= MaxVehicles}
        positions == {pq \in (1..len) \X (1..len) : pq[1] # pq[2]}
    IN  UNION {{[arrivals |-> a, samples |-> q] :
                    q \in [1..SumSeq(a) -> positions]} :
               a \in arrivals}

\* the generators main() can build on a network
Generators(net) ==
    UNION {{NewGenerator(net.nodes, rate, horizon, edge_nodes, tape) :
               tape \in Tapes(horizon,
                              Len(NewGenerator(net.nodes, rate, horizon,
                                               edge_nodes, <<>>).entry_exit_nodes))} :
           rate \in ArrivalRates, horizon \in Horizons,
           edge_nodes \in EdgeNodeLists(net)}

\* a network is built and a generator constructed on it
InitGenerator ==
    /\ \E net \in GeneratorNetworks :
          /\ city_graph = net.roads
          /\ intersections = [n \in net.nodes |-> <<n, 0>>]
          /\ generator \in Generators(net)
    /\ vehicles = <<>>
    /\ lights = << >>
    /\ traffic_lights = [id \in Nodes |-> None]
    /\ last_call = Call("TrafficGenerator", FALSE)
    /\ simulation_time = 0
    /\ traffic_light_cycles = 0
    /\ pc = "generate"
    /\ idx = 0
    /\ replay = None
    /\ results = <<>>

NextGenerator ==
    \/ GenerateVehiclesBegin
    \/ GenerateTick
    \/ GenerateVehiclesEnd

SpecGenerator == InitGenerator /\ [][NextGenerator]_vars

\* ------------------------------------------------------------------------
\* Two runs from the same configuration, network and seed
\*
\* A run is generate_vehicles followed by run_simulation.  The first run
\* leaves in replay the vehicle list generated and the state after every
\* tick; the second run starts again from the initial state, tape included.
\* ------------------------------------------------------------------------

\* the vehicle, road and signal states
Snapshot ==
    [lights               |-> lights,
     traffic_lights       |-> traffic_lights,
     city_graph           |-> city_graph,
     vehicles             |-> vehicles,
     simulation_time      |-> simulation_time,
     traffic_light_cycles |-> traffic_light_cycles]

\* TrafficSimulation(city, vehicles, config), add_traffic_light_system and
\* the first test of the loop of run_simulation
StartSimulation ==
    /\ pc = "generated"
    /\ simulation_time' = 0
    /\ traffic_light_cycles' = 0
    /\ pc' = IF 0 < total_time THEN "update_lights" ELSE "done"
    /\ idx' = 0
    /\ replay' = IF replay.run = 1
                 THEN [replay EXCEPT !.generated = vehicles]
                 ELSE replay
    /\ results' = <<>>
    /\ UNCHANGED <<lights, traffic_lights, last_call, city_graph, vehicles,
                   intersections, generator>>

\* the end of a tick, recorded in the first run
AdvanceTimeRecorded ==
    /\ AdvanceTimeStep
    /\ replay' = IF replay.run = 1
                 THEN [replay EXCEPT !.ticks = Append(@, Snapshot')]
                 ELSE replay

\* the second run is started from the initial state of the first
Restart ==
    /\ pc = "done"
    /\ replay.run = 1
    /\ lights' = replay.initial.lights
    /\ traffic_lights' = replay.initial.traffic_lights
    /\ city_graph' = replay.initial.city_graph
    /\ vehicles' = <<>>
    /\ generator' = replay.initial.generator
    /\ simulation_time' = 0
    /\ traffic_light_cycles' = 0
    /\ last_call' = Call("TrafficGenerator", FALSE)
    /\ pc' = "generate"
    /\ idx' = 0
    /\ replay' = [replay EXCEPT !.run = 2]
    /\ UNCHANGED <<intersections, results>>

\* the configurations run twice: the line with lights at nodes 1 and 2 or
\* the triangle without lights, a generator on all nodes with a horizon of
\* 2 ticks
InitRuns ==
    /\ \E net \in {LineNetwork, TriangleNetwork} :
          /\ city_graph = net.roads
          /\ intersections = [n \in net.nodes |-> <<n, 0>>]
          /\ generator \in {g \in Generators(net) :
                               /\ g.arrival_rate.num # 0
                               /\ g.simulation_time = 2
                               /\ Len(g.entry_exit_nodes) = 3}
          /\ \E setup \in {l \in LightSetups(LineNetwork) :
                              IF net = LineNetwork
                              THEN DOMAIN l = {1, 2} /\ l[2].phases[1].duration = Second
                              ELSE DOMAIN l = {}} :
                /\ \A o \in DOMAIN setup : Accepts(setup[o])
                /\ lights = setup
                /\ traffic_lights =
                      [id \in Nodes |-> IF id \in DOMAIN setup THEN id ELSE None]
    /\ vehicles = <<>>
    /\ last_call = Call("TrafficGenerator", FALSE)
    /\ simulation_time = 0
    /\ traffic_light_cycles = 0
    /\ pc = "generate"
    /\ idx = 0
    /\ replay = [run       |-> 1,
                 initial   |-> [lights         |-> lights,
                                traffic_lights |-> traffic_lights,
                                city_graph     |-> city_graph,
                                generator      |-> generator],
                 generated |-> <<>>,
                 ticks     |-> <<>>]
    /\ results = <<>>

NextRuns ==
    \/ GenerateVehiclesBegin
    \/ GenerateTick
    \/ GenerateVehiclesEnd
    \/ StartSimulation
    \/ UpdateTrafficLights
    \/ CountFlows
    \/ MoveVehicle
    \/ AdvanceTimeRecorded
    \/ Restart

SpecRuns == InitRuns /\ [][NextRuns]_vars

\* ------------------------------------------------------------------------
\* CityGraph driven by a client: add_intersection and add_road
\*
\* self.graph is a networkx DiGraph.  DiGraph.add_node on a node that exists
\* updates its attributes, and DiGraph.add_edge adds the end nodes that are
\* missing (without attributes) and replaces the attributes of an edge that
\* exists; neither raises.
\* ------------------------------------------------------------------------

\* a node that add_edge created: it has no 'pos' attribute
NoPosition == <<>>

\* a call on the CityGraph, its arguments, and whether it raised
CallWith(op, args, raised) == [op |-> op, args |-> args, raised |-> raised]

\* self.graph.add_node(node_id, pos=position)
AddNode(nodes, node_id, position) ==
    [n \in DOMAIN nodes \cup {node_id} |->
        IF n = node_id THEN position ELSE nodes[n]]

\* the nodes after self.graph.add_edge(start, end, ...)
AddEdgeNodes(nodes, start, end) ==
    [n \in DOMAIN nodes \cup {start, end} |->
        IF n \in DOMAIN nodes THEN nodes[n] ELSE NoPosition]

\* the edges after self.graph.add_edge(start, end, **attributes)
AddEdge(graph, start, end, attributes) ==
    [e \in DOMAIN graph \cup {<<start, end>>} |->
        IF e = <<start, end>> THEN attributes ELSE graph[e]]

\* city.add_intersection(node_id, position)
AddIntersection(node_id, position) ==
    /\ intersections' = AddNode(intersections, node_id, position)
    /\ last_call' = CallWith("add_intersection", <<node_id, position>>, FALSE)
    /\ UNCHANGED <<lights, traffic_lights, city_graph, vehicles, simulation_time,
                   traffic_light_cycles, pc, idx, generator, replay, results>>

\* city.add_road(start, end, length, speed_limit, lanes)
AddRoadCall(start, end, length, speed_limit, lanes) ==
    /\ intersections' = AddEdgeNodes(intersections, start, end)
    /\ city_graph' = AddEdge(city_graph, start, end,
                             AddRoad(length, speed_limit, lanes))
    /\ last_call' = CallWith("add_road", <<start, end>>, FALSE)
    /\ UNCHANGED <<lights, traffic_lights, vehicles, simulation_time,
                   traffic_light_cycles, pc, idx, generator, replay, results>>

\* the positions and the road lengths (metres, at 36 km/h, one lane) drawn
Positions == {<<0, 0>>, <<100, 0>>}

RoadLengths == {20, 50}

\* CityGraph.__init__: an empty graph
InitNetwork ==
    /\ lights = << >>
    /\ traffic_lights = [id \in Nodes |-> None]
    /\ last_call = CallWith("CityGraph", <<>>, FALSE)
    /\ InitSim

NextNetwork ==
    \/ \E node_id \in Nodes, position \in Positions :
          AddIntersection(node_id, position)
    \/ \E start \in Nodes, end \in Nodes, length \in RoadLengths :
          /\ start # end
          /\ AddRoadCall(start, end, length, 36, 1)

SpecNetwork == InitNetwork /\ [][NextNetwork]_vars

\* ------------------------------------------------------------------------
\* TrafficSimulation on a vehicle list handed to the constructor
\*
\* TrafficSimulation.__init__ stores the list it is given (line 10); the
\* list need not come from a TrafficGenerator.
\* ------------------------------------------------------------------------

\* the statement of move_vehicles that raises for a vehicle, if any:
\* route[-1] on an empty route (line 75, IndexError), route.index of a node
\* that is not on the route (line 118, ValueError), the lookup of a road
\* that is not in the graph (lines 84 and 124, KeyError)
MoveRaises(vehicle) ==
    IF vehicle.entry_time > simulation_time THEN FALSE
    ELSE IF vehicle.route = <<>> THEN TRUE
    ELSE IF vehicle.current_position = LastNode(vehicle.route) THEN FALSE
    ELSE IF vehicle.current_edge # NoEdge
    THEN vehicle.current_edge \notin Edges(city_graph)
    ELSE IF vehicle.completion_time # -1 THEN FALSE
    ELSE IF \A i \in 1..Len(vehicle.route) :
                vehicle.route[i] # vehicle.current_position
    THEN TRUE
    ELSE LET next_node_index ==
                 NextNodeIndex(vehicle.route, vehicle.current_position)
         IN  /\ next_node_index <= Len(vehicle.route)
             /\ <<vehicle.current_position, vehicle.route[next_node_index]>>
                    \notin Edges(city_graph)

\* TrafficSimulation(city_graph, vehicles, config): lines 9-16 store the
\* arguments; nothing is checked
NewTrafficSimulation ==
    /\ pc = "construct"
    /\ simulation_time' = 0
    /\ traffic_light_cycles' = 0
    /\ last_call' = Call("TrafficSimulation", FALSE)
    /\ pc' = IF 0 < total_time THEN "update_lights" ELSE "done"
    /\ UNCHANGED <<lights, traffic_lights, city_graph, vehicles, idx,
                   intersections, generator, replay, results>>

\* one turn of the vehicle loop that does not raise
MoveVehicleReturns ==
    /\ pc = "move"
    /\ idx <= Len(vehicles)
    /\ ~MoveRaises(vehicles[idx])
    /\ MoveVehicle

\* one turn of the vehicle loop that raises: the exception leaves
\* move_vehicles and run_simulation
MoveVehicleRaises ==
    /\ pc = "move"
    /\ idx <= Len(vehicles)
    /\ MoveRaises(vehicles[idx])
    /\ last_call' = Call("move_vehicles", TRUE)
    /\ pc' = "raised"
    /\ UNCHANGED <<lights, traffic_lights, city_graph, vehicles, simulation_time,
                   traffic_light_cycles, idx, intersections, generator, replay, results>>

\* the routes of the vehicles handed over, all from node 1 on the line
\* network: none, one with a step 1->3 that is no road, and two routes
\* along roads
HandedRoutes == {<<>>, <<1, 3>>, <<1, 2>>, <<1, 2, 3>>}

\* the lists handed to the constructor
HandedVehicleLists ==
    LET one   == [route : HandedRoutes, t : EntryTicks]
        lists == UNION {[1..n -> one] : n \in 1..MaxVehicles}
    IN  {[i \in 1..Len(l) |->
            [GeneratedVehicle(i, LineNetwork.roads, 1, 3, l[i].t)
                EXCEPT !.route = l[i].route]] :
         l \in lists}

InitHanded ==
    /\ city_graph = LineNetwork.roads
    /\ intersections = [n \in LineNetwork.nodes |-> <<n, 0>>]
    /\ vehicles \in HandedVehicleLists
    /\ lights = << >>
    /\ traffic_lights = [id \in Nodes |-> None]
    /\ last_call = Call("none", FALSE)
    /\ simulation_time = 0
    /\ traffic_light_cycles = 0
    /\ pc = "construct"
    /\ idx = 0
    /\ generator = None
    /\ replay = None
    /\ results = <<>>

NextHanded ==
    \/ NewTrafficSimulation
    \/ UpdateTrafficLights
    \/ CountFlows
    \/ MoveVehicleReturns
    \/ MoveVehicleRaises
    \/ AdvanceTime

SpecHanded == InitHanded /\ [][NextHanded]_vars

\* ------------------------------------------------------------------------
\* The metrics run_simulation reports after a tick
\* ------------------------------------------------------------------------

\* a quotient total / count kept as the pair, and the 0 returned for none
Quotient(total, count) ==
    IF count = 0 THEN [num |-> 0, den |-> 1] ELSE [num |-> total, den |-> count]

\* the sum of simulation_time - entry_time over the vehicles of is
RECURSIVE SumSinceEntry(_)
SumSinceEntry(is) ==
    IF is = {} THEN 0
    ELSE LET i == CHOOSE j \in is : TRUE
         IN  (simulation_time - vehicles[i].entry_time) + SumSinceEntry(is \ {i})

\* TrafficSimulation.get_average_travel_time
get_average_travel_time ==
    LET completed == {i \in 1..Len(vehicles) :
                         vehicles[i].current_position = LastNode(vehicles[i].route)}
    IN  Quotient(SumSinceEntry(completed), Cardinality(completed))

\* ------------------------------------------------------------------------
\* Claims about the signal classes (checked under SpecSignal)
\* ------------------------------------------------------------------------

\* d_0 + ... + d_(i-1): the start of the interval of phase i
IntervalStart(phases, i) == SumDurations(SubSeq(phases, 1, i - 1))

\* the phases whose half-open interval [start, start + duration) holds time t
ActivePhases(light, t) ==
    {i \in 1..Len(light.phases) :
        /\ IntervalStart(light.phases, i) <= t
        /\ t < IntervalStart(light.phases, i) + light.phases[i].duration}

\* the largest whole number of quanta within 1e-9 of the larger of a and b
Tolerance(a, b) == Max(Abs(a), Abs(b)) \div RelTolInv

\* the step is the call add_traffic_light(o)
IsAddTrafficLight(o) ==
    /\ o \in DOMAIN lights
    /\ last_call'.op = "add_traffic_light"
    /\ AddTrafficLight(o)

\* the call of the step raised, registered nothing and adjusted nothing
Rejected ==
    /\ last_call'.raised
    /\ traffic_lights' = traffic_lights
    /\ lights' = lights

\* C1 as claimed: every add_traffic_light of a light whose phase durations
\* do not sum to its cycle_time raises, leaves the system without the light
\* and leaves durations and cycle_time as they were.
C1_RejectsEveryMismatch ==
    [][\A o \in SignalObjects :
          (IsAddTrafficLight(o)
             /\ SumDurations(lights[o].phases) # lights[o].cycle_time)
          => Rejected]_vars

\* C1 as amended: add_traffic_light raises, registers nothing and adjusts
\* nothing whenever the sum of the durations differs from cycle_time by more
\* than the relative tolerance 1e-9 of math.isclose; within that tolerance
\* the light is registered, again with durations and cycle_time untouched.
C1_RejectsBeyondTolerance ==
    [][\A o \in SignalObjects :
          IsAddTrafficLight(o) =>
            LET total == SumDurations(lights[o].phases)
                cycle == lights[o].cycle_time
            IN  /\ lights' = lights
                /\ Abs(total - cycle) > Tolerance(total, cycle)
                      => Rejected
                /\ Abs(total - cycle) <= Tolerance(total, cycle)
                      => /\ ~last_call'.raised
                         /\ traffic_lights'[lights[o].intersection_id] = o]_vars

\* C1 witness: a light whose durations miss its cycle_time by far has just
\* been refused and is not in the system.
C1_Witness ==
    /\ last_call = Call("add_traffic_light", TRUE)
    /\ \E o \in DOMAIN lights :
          /\ lights[o].phases # <<>>
          /\ SumDurations(lights[o].phases) < lights[o].cycle_time
          /\ \A id \in Nodes : traffic_lights[id] # o


ScenarioPhases ==
    <<[allowed_edges |-> {EdgeA}, duration |-> 30 * Second],
      [allowed_edges |-> {EdgeB}, duration |-> 30 * Second]>>

\* C3: is_green(edge) is true exactly when edge is permitted by the phase
\* whose interval [d_0+..+d_(i-1), d_0+..+d_i) holds current_time; with
\* phases [(A, 30), (B, 30)] and cycle 60, A is green and B red at 29, B is
\* green and A red at 31, and at 30 the second phase is the active one.
C3_GreenIffPermittedByActivePhase ==
    \A o \in DOMAIN lights :
        LET light == lights[o]
            now   == light.current_time
        IN  /\ \A i \in ActivePhases(light, now), e \in AllEdges :
                  LightIsGreen(light, e) <=> e \in light.phases[i].allowed_edges
            /\ (light.phases = ScenarioPhases /\ light.cycle_time = 60 * Second) =>
                  /\ now = 29 * Second =>
                        LightIsGreen(light, EdgeA) /\ ~LightIsGreen(light, EdgeB)
                  /\ now = 31 * Second =>
                        LightIsGreen(light, EdgeB) /\ ~LightIsGreen(light, EdgeA)
                  /\ now = 30 * Second =>
                        /\ ActivePhases(light, now) = {2}
                        /\ LightIsGreen(light, EdgeB) /\ ~LightIsGreen(light, EdgeA)

\* C3 witness: the scenario light stands at the boundary time 30 s.
C3_Witness ==
    \E o \in DOMAIN lights :
        /\ lights[o].phases = ScenarioPhases
        /\ lights[o].cycle_time = 60 * Second
        /\ lights[o].current_time = 30 * Second
        /\ last_call.op \in {"update", "system_update"}

\* the step is an update of light o by dt
IsUpdate(o, dt) ==
    /\ last_call'.op \in {"update", "system_update"}
    /\ lights'[o] = LightUpdate(lights[o], dt)
    /\ \/ TrafficLightUpdate(o, dt)
       \/ SystemUpdate(dt)

VehiclesOn(e) == {i \in 1..Len(vehicles) : vehicles[i].current_edge = e}

\* the sum of current_flow over a set of roads
RECURSIVE SumFlows(_)
SumFlows(es) ==
    IF es = {} THEN 0
    ELSE LET e == CHOOSE x \in es : TRUE
         IN  city_graph[e].current_flow + SumFlows(es \ {e})

\* every current_flow is the number of vehicles on the road, and so the sum
FlowConserved ==
    /\ \A e \in DOMAIN city_graph :
          city_graph[e].current_flow = Cardinality(VehiclesOn(e))
    /\ SumFlows(DOMAIN city_graph) =
          Cardinality({i \in 1..Len(vehicles) : vehicles[i].current_edge # NoEdge})

\* a tick of run_simulation has just ended
AfterTick == pc \in {"update_lights", "done"} /\ simulation_time > 0

\* C5 as claimed: in the state after each tick the flows are the numbers of
\* vehicles on the roads.
C5_FlowConservedAfterTick == AfterTick => FlowConserved

\* C5 as amended: in the state right after the flow reset and count of a
\* tick, before the first vehicle of the tick is moved, every current_flow
\* is the number of vehicles whose current_edge is that road and the sum of
\* the flows is the number of vehicles with an edge.
C5_FlowConservedAtSnapshot == (pc = "move" /\ idx = 1) => FlowConserved

\* C5 witness: the count has just put two vehicles on one road.
C5_Witness ==
    /\ pc = "move" /\ idx = 1
    /\ \E e \in DOMAIN city_graph : city_graph[e].current_flow = 2

\* C6: whenever a step takes a vehicle from no edge onto an edge, is_green
\* of the signal system is true for that edge on the lights as they stand
\* in that tick, after the advance move_vehicles starts with.
C6_NoEntryOnRed ==
    [][\A i \in 1..Len(vehicles) :
          (vehicles[i].current_edge = NoEdge /\ vehicles'[i].current_edge # NoEdge)
          => /\ pc = "move"
             /\ lights' = lights
             /\ SystemIsGreen(vehicles'[i].current_edge)]_vars

\* C6 witness: a vehicle that was held at a signalled node has just entered
\* the edge out of it.
C6_Witness ==
    \E i \in 1..Len(vehicles) :
        /\ pc = "move" /\ idx = i + 1
        /\ vehicles[i].current_edge # NoEdge
        /\ vehicles[i].current_edge[1] \in Registered
        /\ vehicles[i].total_wait_time > 0
        /\ vehicles[i].travel_time_remaining.whole =
              city_graph[vehicles[i].current_edge].travel_time

\* the concrete scenario: the 2-node network, one vehicle from 1 to 2
\* entering at tick 0
SingleVehicleScenario ==
    /\ DOMAIN city_graph = {<<1, 2>>}
    /\ Len(vehicles) = 1
    /\ vehicles[1].route = <<1, 2>>
    /\ vehicles[1].entry_time = 0

\* C7: in the concrete scenario the vehicle completes at time 10 exactly:
\* a completion_time that is set is 10 s, and it is set once the tick of
\* time 10 s has run.
C7_CompletesAtTen ==
    SingleVehicleScenario =>
        /\ vehicles[1].completion_time # -1 =>
              /\ vehicles[1].completion_time = 10 * Second
              /\ vehicles[1].current_position = 2
        /\ simulation_time > 10 * Second => vehicles[1].completion_time # -1

\* C8 as claimed: each vehicle has exactly one of current_position and
\* current_edge set.
C8_PositionXorEdge ==
    \A i \in 1..Len(vehicles) :
        (vehicles[i].current_position # None) # (vehicles[i].current_edge # NoEdge)

\* C8 as amended: current_position is always set, so a vehicle never has
\* neither; current_edge is set exactly while the vehicle is on a road, and
\* then current_position is still the node the road leaves (entering an
\* edge does not clear it); arriving sets current_position to the node the
\* road leads to and clears current_edge.
C8_PositionKeptOnEdge ==
    /\ [](\A i \in 1..Len(vehicles) :
             /\ vehicles[i].current_position \in Nodes
             /\ vehicles[i].current_edge # NoEdge =>
                   /\ vehicles[i].current_edge \in DOMAIN city_graph
                   /\ vehicles[i].current_position = vehicles[i].current_edge[1])
    /\ [][\A i \in 1..Len(vehicles) :
             /\ (vehicles[i].current_edge # NoEdge /\ vehicles'[i].current_edge = NoEdge)
                   => vehicles'[i].current_position = vehicles[i].current_edge[2]
             /\ (vehicles[i].current_edge = NoEdge /\ vehicles'[i].current_edge # NoEdge)
                   => vehicles'[i].current_position = vehicles[i].current_position]_vars

\* C8 witness: a vehicle that has crossed one road is on its second road,
\* with current_position the node between the two.
C8_Witness ==
    \E i \in 1..Len(vehicles) :
        /\ vehicles[i].route = <<1, 2, 3>>
        /\ vehicles[i].current_edge = <<2, 3>>
        /\ vehicles[i].current_position = 2

\* C9: after every tick every vehicle that has entered, has no edge and is
\* at the last node of its route has completion_time set, single-node
\* routes included.
C9_CompletionMarked ==
    AfterTick =>
        \A i \in 1..Len(vehicles) :
            (/\ vehicles[i].entry_time <= simulation_time
             /\ vehicles[i].current_edge = NoEdge
             /\ vehicles[i].current_position = LastNode(vehicles[i].route))
            => vehicles[i].completion_time # -1

\* C10: travel_time_remaining of a vehicle that stays on its edge over a
\* step never goes up, whatever the flow on the edge.
C10_RemainingNonIncreasing ==
    [][\A i \in 1..Len(vehicles) :
          (vehicles[i].current_edge # NoEdge
             /\ vehicles'[i].current_edge = vehicles[i].current_edge)
          => EpsLeq(vehicles'[i].travel_time_remaining,
                    vehicles[i].travel_time_remaining)]_vars

\* C10 witness: a vehicle is on an edge it shares with another vehicle and
\* has been moved along it in two ticks.
C10_Witness ==
    \E i \in 1..Len(vehicles) :
        /\ vehicles[i].current_edge # NoEdge
        /\ city_graph[vehicles[i].current_edge].current_flow = 2
        /\ vehicles[i].travel_time_remaining.whole =
              city_graph[vehicles[i].current_edge].travel_time
                 - 2 * time_step * vehicle_speed_factor


\* ------------------------------------------------------------------------
\* Claims about progress_on_edge
\* ------------------------------------------------------------------------

\* progress_on_edge = 1 - remaining / (Fine * total) lies in [0, 1]
HeavyProgressInUnit(p) == 0 <= p.remaining /\ p.remaining <= Fine * p.total

\* progress p is at most progress q
HeavyProgressLeq(p, q) == p.remaining * q.total >= q.remaining * p.total

\* a platoon that stays on its edge over a step
StaysOnEdge(i) ==
    /\ vehicles[i].current_edge # NoEdge
    /\ vehicles'[i].current_edge = vehicles[i].current_edge

\* C11: progress_on_edge is within [0, 1] in every reachable state and never
\* decreases while a vehicle stays on an edge, also when the flow of the
\* edge rises or falls between ticks
C11_ProgressMonotone ==
    /\ [](\A i \in 1..Len(vehicles) : HeavyProgressInUnit(vehicles[i].progress_on_edge))
    /\ [][\A i \in 1..Len(vehicles) :
             StaysOnEdge(i) =>
                 HeavyProgressLeq(vehicles[i].progress_on_edge,
                                  vehicles'[i].progress_on_edge)]_vars


\* ------------------------------------------------------------------------
\* Claims about the generator (checked under SpecGenerator)
\* ------------------------------------------------------------------------

\* C12: a generator with arrival_rate = 0 and at least two entry/exit nodes
\* does not raise and its vehicle list is empty, whatever the horizon and
\* whatever the random draws
C12_ZeroRateNoVehicles ==
    (/\ generator.arrival_rate.num = 0
     /\ Len(generator.entry_exit_nodes) >= 2)
        => /\ vehicles = <<>>
           /\ pc # "failed"

\* generation has returned for a zero rate, a horizon of 2 ticks and a tape
\* that holds arrivals
C12_Witness ==
    /\ pc = "generated"
    /\ generator.arrival_rate.num = 0
    /\ generator.simulation_time = 2
    /\ Len(generator.entry_exit_nodes) >= 2
    /\ SumSeq(generator.tape.arrivals) > 0
    /\ vehicles = <<>>


\* the number of ticks of run_simulation done
TicksDone == simulation_time \div time_step

IsDuplicateIntersection ==
    /\ last_call'.op = "add_intersection"
    /\ last_call'.args[1] \in DOMAIN intersections

\* the step is add_road with an end that is not an intersection
IsRoadToMissingNode ==
    /\ last_call'.op = "add_road"
    /\ \/ last_call'.args[1] \notin DOMAIN intersections
       \/ last_call'.args[2] \notin DOMAIN intersections

\* C14: add_intersection on an id that exists, and add_road with a from or
\* to id that is not an intersection, fail and leave the network unchanged
C14_RejectsBadIds ==
    [][(IsDuplicateIntersection \/ IsRoadToMissingNode)
          => /\ last_call'.raised
             /\ UNCHANGED <<intersections, city_graph>>]_vars


\* ------------------------------------------------------------------------
\* Claims about failures
\* ------------------------------------------------------------------------

\* a route is empty or has a step that is no road of the network
Malformed(route) ==
    \/ route = <<>>
    \/ \E i \in 1..(Len(route) - 1) : <<route[i], route[i + 1]>> \notin Edges(city_graph)

\* C15: a vehicle list with an empty route or a route step without a road is
\* refused when the simulation is set up, before the first tick, and no tick
\* of move_vehicles raises
C15_LoopCannotFail ==
    /\ pc # "raised"
    /\ (\E i \in 1..Len(vehicles) : Malformed(vehicles[i].route))
          => pc = "construct"


\* generate_vehicles has raised or not yet been called, and no vehicle has
\* been appended
FailsAtSetup ==
    /\ pc \in {"generate", "failed"}
    /\ pc = "failed" => last_call = Call("generate_vehicles", TRUE)
    /\ vehicles = <<>>
    /\ generator.t = 0

\* C16 as stated, for the entry/exit nodes the generator is given: with 0 or
\* 1 nodes given, generation raises and appends nothing
C16_RaisesOnFewNodesGiven ==
    Len(generator.edge_nodes) < 2 => FailsAtSetup

\* C16: when the entry/exit list of the generator (the nodes given, or all
\* nodes of the graph when none is given) has 0 or 1 nodes, generate_vehicles
\* raises, appends no vehicle and runs no turn of its loop
C16_RaisesOnFewNodes ==
    Len(generator.entry_exit_nodes) < 2 => FailsAtSetup

\* generation has raised on a list of one node given on a larger network
C16_Witness ==
    /\ pc = "failed"
    /\ Len(generator.entry_exit_nodes) = 1
    /\ Cardinality(DOMAIN intersections) > 1
    /\ generator.simulation_time > 0
    /\ last_call = Call("generate_vehicles", TRUE)


\* the nodes reached from the nodes of seen along the roads of graph
RECURSIVE ReachedFrom(_, _)
ReachedFrom(graph, seen) ==
    LET more == seen \cup {e[2] : e \in {x \in Edges(graph) : x[1] \in seen}}
    IN  IF more = seen THEN seen ELSE ReachedFrom(graph, more)

\* there is a path from s to d
HasPath(graph, s, d) == d \in ReachedFrom(graph, {s})

\* the fields every generated vehicle starts with
InitialFields(v) ==
    /\ v.current_position = v.start
    /\ v.completion_time = -1
    /\ v.total_wait_time = 0
    /\ v.current_edge = NoEdge
    /\ v.progress_on_edge = ProgressZero
    /\ v.travel_time_remaining = EpsNumber(0, 0)

\* C17: an arrival whose origin has no path to its destination is appended
\* like any other (the list holds one vehicle per arrival drawn, generation
\* does not raise), with the route [origin] and the usual initial fields
C17_NoPathRouteIsOrigin ==
    /\ Len(generator.entry_exit_nodes) >= 2 => pc # "failed"
    /\ Len(vehicles) = generator.drawn
    /\ \A i \in 1..Len(vehicles) :
          /\ InitialFields(vehicles[i])
          /\ ~HasPath(city_graph, vehicles[i].start, vehicles[i].destination)
                => vehicles[i].route = <<vehicles[i].start>>

\* generation has returned a list with an arrival without a path and one
\* with a path
C17_Witness ==
    /\ pc = "generated"
    /\ \E i, j \in 1..Len(vehicles) :
          /\ ~HasPath(city_graph, vehicles[i].start, vehicles[i].destination)
          /\ vehicles[i].route = <<vehicles[i].start>>
          /\ HasPath(city_graph, vehicles[j].start, vehicles[j].destination)


\* more than the travel time of any path of the networks, in quanta
FarAway == 1000 * Second

\* the least travel time from s to each node over paths of at most k roads
RECURSIVE LeastTimes(_, _, _)
LeastTimes(graph, s, k) ==
    IF k = 0 THEN [n \in Nodes |-> IF n = s THEN 0 ELSE FarAway]
    ELSE LET before == LeastTimes(graph, s, k - 1)
             Through(n) == {before[e[1]] + graph[e].travel_time :
                               e \in {x \in Edges(graph) : x[2] = n}}
                           \cup {before[n]}
         IN  [n \in Nodes |->
                 CHOOSE t \in Through(n) : \A u \in Through(n) : t <= u]

\* the least travel time of a path from s to d
LeastTime(graph, s, d) == LeastTimes(graph, s, Cardinality(Nodes))[d]

\* C18: when the destination can be reached, the route starts at the origin,
\* ends at the destination, follows roads of the network, and no path from
\* the origin to the destination has a smaller sum of free-flow travel times
C18_RouteIsShortest ==
    \A i \in 1..Len(vehicles) :
        LET v == vehicles[i]
        IN  HasPath(city_graph, v.start, v.destination) =>
                /\ v.route[1] = v.start
                /\ v.route[Len(v.route)] = v.destination
                /\ \A k \in 1..(Len(v.route) - 1) :
                      <<v.route[k], v.route[k + 1]>> \in Edges(city_graph)
                /\ PathTime(city_graph, v.route)
                      = LeastTime(city_graph, v.start, v.destination)

\* a vehicle from 1 to 3 on the triangle takes the two short roads, not the
\* long direct one
C18_Witness ==
    /\ pc = "generated"
    /\ <<1, 3>> \in Edges(city_graph)
    /\ \E i \in 1..Len(vehicles) :
          /\ vehicles[i].start = 1
          /\ vehicles[i].destination = 3
          /\ vehicles[i].route = <<1, 2, 3>>


\* the elements of a list
Elements(list) == {list[k] : k \in 1..Len(list)}

\* C19: every vehicle generated has entry_time = t for a tick t of the
\* horizon that the loop has done, as many vehicles per tick as arrivals
\* were drawn for it, current_position = origin = route[0], no current_edge,
\* completion_time -1, total_wait_time 0, and an origin and a destination
\* that differ and are entry/exit nodes; ids are 1..N in list order and
\* entry_time never decreases along the list
C19_GeneratedVehicles ==
    /\ generator.t <= generator.simulation_time
    /\ \A i \in 1..Len(vehicles) :
          LET v == vehicles[i]
          IN  /\ v.id = i
              /\ \E t \in 0..(generator.t - 1) : v.entry_time = t * Second
              /\ v.current_position = v.start
              /\ v.route[1] = v.start
              /\ v.current_edge = NoEdge
              /\ v.completion_time = -1
              /\ v.total_wait_time = 0
              /\ v.start # v.destination
              /\ v.start \in Elements(generator.entry_exit_nodes)
              /\ v.destination \in Elements(generator.entry_exit_nodes)
    /\ \A i \in 1..(Len(vehicles) - 1) :
          vehicles[i].entry_time <= vehicles[i + 1].entry_time
    /\ \A t \in 0..(generator.t - 1) :
          Cardinality({i \in 1..Len(vehicles) : vehicles[i].entry_time = t * Second})
              = Poisson(generator.arrival_rate, generator.tape.arrivals[t + 1])

\* generation has returned two vehicles of different ticks
C19_Witness ==
    /\ pc = "generated"
    /\ Len(vehicles) = 2
    /\ vehicles[1].entry_time = 0
    /\ vehicles[2].entry_time = Second
    /\ vehicles[1].id = 1
    /\ vehicles[2].id = 2


\* ------------------------------------------------------------------------
\* Claims about the metrics (checked under Spec)
\* ------------------------------------------------------------------------

\* the sum of completion_time - entry_time over the vehicles of is
RECURSIVE SumTravelTimes(_)
SumTravelTimes(is) ==
    IF is = {} THEN 0
    ELSE LET i == CHOOSE j \in is : TRUE
         IN  (vehicles[i].completion_time - vehicles[i].entry_time)
             + SumTravelTimes(is \ {i})

\* the mean of completion_time - entry_time over the vehicles that have a
\* completion_time, 0 when there is none
MeanTravelTime ==
    LET completed == {i \in 1..Len(vehicles) : vehicles[i].completion_time # -1}
    IN  Quotient(SumTravelTimes(completed), Cardinality(completed))

\* C20: the average travel time reported after a tick is the mean of
\* completion_time - entry_time over the completed vehicles, and 0 when no
\* vehicle has completed
C20_AverageOverCompleted ==
    AfterTick =>
        get_average_travel_time.num * MeanTravelTime.den
            = MeanTravelTime.num * get_average_travel_time.den


\* ------------------------------------------------------------------------
\* The loop run to its end
\*
\* run_simulation is one thread in a while loop with nothing to wait for:
\* whenever a step of the loop is possible, the loop takes it.
\* ------------------------------------------------------------------------

SpecLive == Init /\ [][Next]_vars /\ WF_vars(Next)

\* ------------------------------------------------------------------------
\* One tick over two orderings of the vehicle list
\*
\* Every tick is run twice from the same state: over the list as it is and,
\* after the lights, roads and vehicles are put back, over a reordering of
\* it.  replay keeps the state the tick started from and the state
\* move_vehicles left the first time; the loop goes on from the second.
\* ------------------------------------------------------------------------

\* the list vs in the order p, a permutation of its indices
Reordered(vs, p) == [i \in 1..Len(vs) |-> vs[p[i]]]

\* the vehicle records by id
ById(vs) ==
    [id \in {vs[i].id : i \in 1..Len(vs)} |->
        vs[CHOOSE i \in 1..Len(vs) : vs[i].id = id]]

\* the state move_vehicles leaves, every vehicle under its id
Outcome == [Snapshot EXCEPT !.vehicles = ById(vehicles)]

\* move_vehicles has returned from the first of the two runs of the tick:
\* the tick is started again over a reordered list
RunReordered ==
    /\ pc = "move"
    /\ idx > Len(vehicles)
    /\ replay.run = 1
    /\ \E p \in Permutations(1..Len(vehicles)) :
          vehicles' = Reordered(replay.initial.vehicles, p)
    /\ lights' = replay.initial.lights
    /\ city_graph' = replay.initial.city_graph
    /\ traffic_light_cycles' = replay.initial.traffic_light_cycles
    /\ pc' = "update_lights"
    /\ idx' = 0
    /\ replay' = [replay EXCEPT !.run = 2, !.first = Outcome]
    /\ UNCHANGED <<intersections, generator, traffic_lights, last_call,
                   simulation_time, results>>

\* the end of the tick after the second run
AdvanceTimeReordered ==
    /\ replay.run = 2
    /\ AdvanceTimeStep
    /\ replay' = [run |-> 1, initial |-> Snapshot', first |-> << >>]

\* the line with lights at nodes 1 and 2 and any of the longest vehicle
\* lists whose vehicles start at a node with a road out of it
InitOrder ==
    /\ city_graph = LineNetwork.roads
    /\ intersections = [n \in LineNetwork.nodes |-> <<n, 0>>]
    /\ vehicles \in {l \in VehicleLists(LineNetwork) :
                        /\ Len(l) = MaxVehicles
                        /\ \A i \in 1..Len(l) : l[i].start # 3}
    /\ \E setup \in LightSetups(LineNetwork) :
          /\ DOMAIN setup = {1, 2}
          /\ setup[2].phases[1].duration = Second
          /\ \A o \in DOMAIN setup : Accepts(setup[o])
          /\ lights = setup
          /\ traffic_lights =
                [id \in Nodes |-> IF id \in DOMAIN setup THEN id ELSE None]
    /\ last_call = Call("none", FALSE)
    /\ simulation_time = 0
    /\ traffic_light_cycles = 0
    /\ pc = IF 0 < total_time THEN "update_lights" ELSE "done"
    /\ idx = 0
    /\ generator = None
    /\ replay = [run |-> 1, initial |-> Snapshot, first |-> << >>]
    /\ results = <<>>

NextOrder ==
    \/ UpdateTrafficLights
    \/ CountFlows
    \/ MoveVehicle
    \/ RunReordered
    \/ AdvanceTimeReordered

SpecOrder == InitOrder /\ [][NextOrder]_vars

\* ------------------------------------------------------------------------
\* The oversaturated road: the tick of Spec on the 2-node network with
\* many vehicles entering the one road in the same tick
\* ------------------------------------------------------------------------

GridlockVehicles == 20

\* the vehicle list of the scenario: every vehicle from 1 to 2, entering at 0
GridlockVehicleList ==
    [i \in 1..GridlockVehicles |->
        GeneratedVehicle(i, TwoNodeNetwork.roads, 1, 2, 0)]

InitGridlock ==
    /\ city_graph = TwoNodeNetwork.roads
    /\ intersections = [n \in TwoNodeNetwork.nodes |-> <<n, 0>>]
    /\ vehicles = GridlockVehicleList
    /\ lights = << >>
    /\ traffic_lights = [id \in Nodes |-> None]
    /\ last_call = Call("none", FALSE)
    /\ simulation_time = 0
    /\ traffic_light_cycles = 0
    /\ pc = IF 0 < total_time THEN "update_lights" ELSE "done"
    /\ idx = 0
    /\ generator = None
    /\ replay = None
    /\ results = <<>>

NextGridlock ==
    \/ UpdateTrafficLights
    \/ CountFlows
    \/ MoveVehicle
    \/ AdvanceTime

SpecGridlock == InitGridlock /\ [][NextGridlock]_vars

\* ------------------------------------------------------------------------
\* Claims about the tick (checked under Spec)
\* ------------------------------------------------------------------------

\* C21: in every state of the loop no vehicle has a current_edge while its
\* current_position is the last node of its route, and no road has a
\* negative current_flow
C21_LogicInvariants ==
    /\ \A i \in 1..Len(vehicles) :
          ~(/\ vehicles[i].current_edge # NoEdge
            /\ vehicles[i].current_position = LastNode(vehicles[i].route))
    /\ \A e \in Edges(city_graph) : city_graph[e].current_flow >= 0

\* a vehicle is on the last road of its route, counted in the flow of the
\* road, at the end of a tick
C21_Witness ==
    /\ AfterTick
    /\ \E i \in 1..Len(vehicles) :
          /\ vehicles[i].current_edge # NoEdge
          /\ vehicles[i].current_edge[2] = LastNode(vehicles[i].route)
          /\ city_graph[vehicles[i].current_edge].current_flow > 0


\* the fields of a vehicle no tick writes
SameIdentity(v, w) ==
    /\ w.id = v.id
    /\ w.start = v.start
    /\ w.destination = v.destination
    /\ w.entry_time = v.entry_time
    /\ w.route = v.route

\* the fields of a completed vehicle no tick writes
SameOutcome(v, w) ==
    /\ w.completion_time = v.completion_time
    /\ w.current_position = v.current_position
    /\ w.current_edge = v.current_edge
    /\ w.travel_time_remaining = v.travel_time_remaining
    /\ w.total_wait_time = v.total_wait_time

\* C22: no step of the loop adds or removes a vehicle or changes a vehicle's
\* id, origin, destination, entry_time or route, and a vehicle that has a
\* completion_time keeps it, with its current_position, current_edge,
\* travel_time_remaining and total_wait_time
C22_VehiclesKeptAndFrozen ==
    [][/\ Len(vehicles') = Len(vehicles)
       /\ \A i \in 1..Len(vehicles) :
             /\ SameIdentity(vehicles[i], vehicles'[i])
             /\ vehicles[i].completion_time # -1
                   => SameOutcome(vehicles[i], vehicles'[i])]_vars

\* a completed vehicle has been visited again by the loop, ticks after its
\* completion, next to a vehicle still on its way
C22_Witness ==
    /\ Len(vehicles) = 2
    /\ \E i, j \in 1..Len(vehicles) :
          /\ vehicles[i].completion_time # -1
          /\ vehicles[i].last_position = vehicles[i].current_position
          /\ simulation_time >= vehicles[i].completion_time + 2 * time_step
          /\ vehicles[j].completion_time = -1
          /\ vehicles[j].current_edge # NoEdge


\* the number of vehicles with current_edge e
OnRoad(e) == Cardinality({i \in 1..Len(vehicles) : vehicles[i].current_edge = e})

\* C25: the step that resets and counts the flows leaves the vehicles alone
\* and comes before the first vehicle is moved; from then to the end of the
\* tick no step writes a road attribute, a vehicle that starts on a road gets
\* its travel_time_remaining from the current_flow counted, and each turn of
\* the vehicle loop writes the record of its own vehicle only
C25_FrozenSnapshot ==
    [][/\ pc = "count_flows"
             => /\ pc' = "move" /\ idx' = 1
                /\ vehicles' = vehicles
                /\ \A e \in Edges(city_graph) :
                      city_graph'[e] = [city_graph[e] EXCEPT !.current_flow = OnRoad(e)]
       /\ pc = "move"
             => /\ city_graph' = city_graph
                /\ Len(vehicles') = Len(vehicles)
                /\ \A j \in 1..Len(vehicles) :
                      j # idx => vehicles'[j] = vehicles[j]
       /\ \A i \in 1..Len(vehicles) :
             vehicles[i].current_edge = NoEdge /\ vehicles'[i].current_edge # NoEdge
                => /\ pc = "move" /\ i = idx
                   /\ vehicles'[i].travel_time_remaining =
                         EpsMul(city_graph[vehicles'[i].current_edge].travel_time,
                                congestion_factor(
                                    city_graph[vehicles'[i].current_edge]))]_vars

\* the second vehicle of the list has just started on a road the first one
\* was counted on, its travel_time_remaining stretched by that count
C25_Witness ==
    /\ pc = "move"
    /\ idx = 3
    /\ vehicles[2].current_edge # NoEdge
    /\ vehicles[1].current_edge = vehicles[2].current_edge
    /\ city_graph[vehicles[2].current_edge].current_flow = 1
    /\ vehicles[2].travel_time_remaining =
          EpsMul(city_graph[vehicles[2].current_edge].travel_time,
                 congestion_factor(city_graph[vehicles[2].current_edge]))
    /\ vehicles[2].travel_time_remaining.eps > 0

\* C26: after every tick the current_time of every registered light is
\* simulation_time modulo its cycle_time, the ticks having advanced it by
\* time_step each and by nothing else
C26_SignalsInStep ==
    AfterTick
       => \A id \in Registered :
             LightAt(id).current_time = simulation_time % LightAt(id).cycle_time

\* ------------------------------------------------------------------------
\* Claims about the oversaturated road (checked under SpecGridlock)
\* ------------------------------------------------------------------------

\* a >= 0
EpsNonNegative(a) == EpsLeq(EpsNumber(0, 0), a)

\* C23: with all the vehicles of the scenario counted on the road the flow
\* ratio current_flow / capacity is about 40 (between 39 and 41), no vehicle
\* reaches the end of the road within 10 ticks, and no travel_time_remaining
\* is negative
C23_Gridlock ==
    /\ \A e \in Edges(city_graph) :
          city_graph[e].current_flow = GridlockVehicles
             => /\ 39 * city_graph[e].capacity <= city_graph[e].current_flow
                /\ city_graph[e].current_flow <= 41 * city_graph[e].capacity
    /\ simulation_time <= 10 * time_step
          => \A i \in 1..Len(vehicles) :
                vehicles[i].current_position # LastNode(vehicles[i].route)
    /\ \A i \in 1..Len(vehicles) :
          EpsNonNegative(vehicles[i].travel_time_remaining)


\* ------------------------------------------------------------------------
\* Claims about the order of the vehicle list (checked under SpecOrder)
\* ------------------------------------------------------------------------

\* move_vehicles has returned from the second run of a tick
SecondRunDone == pc = "move" /\ idx > Len(vehicles) /\ replay.run = 2

\* C24: from every state a tick starts in, the tick run over any reordering
\* of the vehicle list leaves every vehicle, every road and every light as
\* the tick run over the list itself leaves them
C24_OrderIndependent == SecondRunDone => Outcome = replay.first

\* the second run took two vehicles of one road in the other order, the
\* first of them onto the road
C24_Witness ==
    /\ SecondRunDone
    /\ \E i, j \in 1..Len(vehicles) :
          /\ i < j
          /\ vehicles[i].id > vehicles[j].id
          /\ vehicles[i].current_edge # NoEdge
          /\ vehicles[j].current_edge = vehicles[i].current_edge
          /\ vehicles[i].travel_time_remaining
                # replay.initial.vehicles[vehicles[i].id].travel_time_remaining
          /\ vehicles[j].travel_time_remaining
                # replay.initial.vehicles[vehicles[j].id].travel_time_remaining
          /\ replay.initial.vehicles[vehicles[i].id].current_edge = NoEdge


\* ------------------------------------------------------------------------
\* Claims about the clock of a light (checked under SpecSignal)
\* ------------------------------------------------------------------------

\* C27: the current_time of every light is at least 0 and below its
\* cycle_time, and every update(dt) leaves it at the previous current_time
\* plus dt, modulo cycle_time
C27_ClockModCycle ==
    [][/\ \A o \in DOMAIN lights' :
             /\ 0 <= lights'[o].current_time
             /\ lights'[o].current_time < lights'[o].cycle_time
       /\ \A o \in DOMAIN lights :
             \A dt \in Steps(lights[o].cycle_time) :
                IsUpdate(o, dt)
                   => lights'[o].current_time =
                         (lights[o].current_time + dt) % lights[o].cycle_time]_vars

\* a light away from 0 after updates that took it through a wrap
C27_Witness ==
    /\ last_call.op \in {"update", "system_update"}
    /\ \E o \in DOMAIN lights :
          /\ lights[o].cycle_count > 0
          /\ lights[o].current_time > 0
          /\ lights[o].current_time + Second < lights[o].cycle_time

\* C28: every update(dt) with previous current_time + dt >= cycle_time adds
\* one to cycle_count, updates by cycle_time or more included, and every
\* other update leaves cycle_count as it was
C28_WrapCounted ==
    [][\A o \in DOMAIN lights :
          \A dt \in Steps(lights[o].cycle_time) :
             IsUpdate(o, dt)
                => lights'[o].cycle_count =
                      IF lights[o].current_time + dt >= lights[o].cycle_time
                      THEN lights[o].cycle_count + 1
                      ELSE lights[o].cycle_count]_vars


\* ------------------------------------------------------------------------
\* Claims about is_green (checked under SpecSignal)
\* ------------------------------------------------------------------------

\* C29: is_green(edge) of the system is is_green(edge) of the light
\* registered at the first node of the edge when there is one and true when
\* there is none, whatever light stands at the second node of the edge
C29_GreenByFromNode ==
    \A e \in AllEdges :
       /\ traffic_lights[e[1]] # None
             => SystemIsGreen(e) = LightIsGreen(lights[traffic_lights[e[1]]], e)
       /\ traffic_lights[e[1]] = None => SystemIsGreen(e)

\* a light registered at a node shows red for an edge into the node, which
\* the system lets through, and red for one of the edges out of the node
C29_Witness ==
    \E e \in AllEdges :
       /\ traffic_lights[e[1]] = None
       /\ traffic_lights[e[2]] # None
       /\ ~LightIsGreen(lights[traffic_lights[e[2]]], e)
       /\ lights[traffic_lights[e[2]]].current_time > 0
       /\ SystemIsGreen(e)
       /\ \E f \in AllEdges : f[1] = e[2] /\ ~SystemIsGreen(f)
       /\ \E f \in AllEdges : f[1] = e[2] /\ SystemIsGreen(f)

Entered(v) == v.entry_time <= simulation_time

\* an entered vehicle without completion_time stands at a node of its route
\* that is not the last one
WaitsAtNode(v) ==
    /\ Entered(v)
    /\ v.completion_time = -1
    /\ v.current_edge = NoEdge
    /\ v.current_position # LastNode(v.route)

\* the edge from the node the vehicle stands at to the next node of its route
NextEdge(v) == <<v.current_position, v.route[NextNodeIndex(v.route, v.current_position)]>>

\* the step is the turn of vehicle i in the vehicle loop
IsTurnOf(i) == pc = "move" /\ idx = i /\ idx' = i + 1

\* C31: the turn of an entered vehicle without completion_time at a node that
\* is not the last of its route either puts it on the next edge of its route,
\* when the edge is green, with travel_time_remaining the travel_time of the
\* road times the congestion factor of the flow counted in this tick, progress
\* 0 and every other field as it was, or, when the edge is red, adds time_step
\* to its total_wait_time and leaves every other field as it was
C31_AtNodeStep ==
    [][\A i \in 1..Len(vehicles) :
          IsTurnOf(i) /\ WaitsAtNode(vehicles[i])
             => LET v == vehicles[i]
                    e == NextEdge(v)
                IN  IF SystemIsGreen(e)
                    THEN vehicles'[i] =
                            [v EXCEPT !.current_edge = e,
                                      !.travel_time_remaining =
                                          EpsMul(city_graph[e].travel_time,
                                                 congestion_factor(city_graph[e])),
                                      !.progress_on_edge = ProgressZero]
                    ELSE vehicles'[i] =
                            [v EXCEPT !.total_wait_time = @ + time_step]]_vars

\* a vehicle held at a red light for two ticks has just started on the road
\* the light stands at
C31_Witness ==
    /\ pc = "move"
    /\ \E i \in 1..Len(vehicles) :
          /\ i < idx
          /\ vehicles[i].total_wait_time = 2 * time_step
          /\ vehicles[i].current_edge # NoEdge
          /\ vehicles[i].current_edge[1] \in Registered
          /\ vehicles[i].travel_time_remaining =
                EpsMul(city_graph[vehicles[i].current_edge].travel_time,
                       congestion_factor(city_graph[vehicles[i].current_edge]))


\* the turn of vehicle i finds it entered, at a node that is not the last of
\* its route, and refused by a red light
IsRefused(i) ==
    /\ IsTurnOf(i)
    /\ WaitsAtNode(vehicles[i])
    /\ ~SystemIsGreen(NextEdge(vehicles[i]))

\* C32: total_wait_time starts at 0 and never decreases; a step adds
\* time_step to it when the step is the turn of the vehicle and finds it
\* entered, at a node that is not the last of its route and refused by a red
\* light, and every other step leaves it as it was (a vehicle not yet
\* entered, on an edge, let onto an edge or completed)
C32_WaitCountsRedTicks ==
    /\ \A i \in 1..Len(vehicles) : vehicles[i].total_wait_time = 0
    /\ [][\A i \in 1..Len(vehicles) :
             /\ vehicles'[i].total_wait_time >= vehicles[i].total_wait_time
             /\ vehicles'[i].total_wait_time =
                   IF IsRefused(i)
                   THEN vehicles[i].total_wait_time + time_step
                   ELSE vehicles[i].total_wait_time]_vars

\* a vehicle that waited at a red light, was let onto the road and has
\* reached the end of its route, and a vehicle that got there without waiting
C32_Witness ==
    \E i, j \in 1..Len(vehicles) :
       /\ vehicles[i].total_wait_time > 0
       /\ vehicles[i].completion_time # -1
       /\ vehicles[i].completion_time
             > vehicles[i].entry_time + vehicles[i].total_wait_time
       /\ vehicles[j].total_wait_time = 0
       /\ vehicles[j].completion_time # -1


\* the entered vehicles with current_edge e
EnteredOn(e) ==
    {i \in 1..Len(vehicles) : Entered(vehicles[i]) /\ vehicles[i].current_edge = e}

\* C33: a vehicle with entry_time > simulation_time stands at its start with
\* no edge, no wait time and no completion_time, no step changes any of its
\* fields, and the count of the flows counts entered vehicles only
C33_NotYetEntered ==
    /\ [](\A i \in 1..Len(vehicles) :
            ~Entered(vehicles[i])
               => /\ vehicles[i].current_edge = NoEdge
                  /\ vehicles[i].current_position = vehicles[i].start
                  /\ vehicles[i].total_wait_time = 0
                  /\ vehicles[i].completion_time = -1)
    /\ [][/\ \A i \in 1..Len(vehicles) :
                ~Entered(vehicles[i]) => vehicles'[i] = vehicles[i]
          /\ pc = "count_flows"
                => \A e \in Edges(city_graph) :
                      city_graph'[e].current_flow = Cardinality(EnteredOn(e))]_vars

\* the loop has passed a vehicle that has not entered yet after it put a
\* vehicle that has entered on a road
C33_Witness ==
    /\ pc = "move"
    /\ \E i, j \in 1..Len(vehicles) :
          /\ i < j /\ j < idx
          /\ ~Entered(vehicles[j])
          /\ vehicles[i].current_edge # NoEdge
          /\ vehicles[j].start = vehicles[i].start
          /\ vehicles[j].route = vehicles[i].route


\* ------------------------------------------------------------------------
\* Claims about what an update of the lights writes (checked under
\* SpecSignal; the steps of the tick loop are covered by the same formula)
\* ------------------------------------------------------------------------

\* the step advances lights: update on a light, update on the system, or a
\* step of the tick loop
AdvancesLights ==
    \/ last_call'.op \in {"update", "system_update"}
    \/ pc \in {"update_lights", "count_flows", "move"}

\* C34: a step that advances lights leaves the phases of every light, with
\* their durations and allowed edges, its cycle_time and its intersection_id
\* as they were, and leaves the same lights in the system; it writes
\* current_time and cycle_count only
C34_OnlyClockChanges ==
    [][AdvancesLights
          => /\ traffic_lights' = traffic_lights
             /\ DOMAIN lights' = DOMAIN lights
             /\ \A o \in DOMAIN lights :
                   lights'[o] = [lights[o] EXCEPT
                                    !.current_time = lights'[o].current_time,
                                    !.cycle_count  = lights'[o].cycle_count]]_vars

\* a light of the system with two different phases has been advanced through
\* a wrap by an update of the system
C34_Witness ==
    /\ last_call.op = "system_update"
    /\ \E id \in Registered :
          /\ Len(LightAt(id).phases) = 2
          /\ LightAt(id).phases[1] # LightAt(id).phases[2]
          /\ LightAt(id).cycle_count > 0
          /\ LightAt(id).current_time > 0


\* ------------------------------------------------------------------------
\* Claims about the attributes of a road (checked under Spec)
\* ------------------------------------------------------------------------

\* arguments of add_road: lengths in metres, speed limits in km/h, lanes
RoadArguments == {20, 30, 50, 100} \X {36, 72} \X {0, 1, 2}

\* what add_road is to store for the arguments a: travel_time (in quanta)
\* times the speed in m/s is the length, capacity is 1800 per lane
StoredAsClaimed(road, a) ==
    /\ road.length = a[1] /\ road.speed_limit = a[2] /\ road.lanes = a[3]
    /\ road.travel_time * a[2] * 10 = a[1] * 36 * Second
    /\ road.capacity = a[3] * 1800
    /\ a[3] > 0 => road.capacity > 0
    /\ road.current_flow = 0

\* C35: add_road stores capacity = lanes * 1800, travel_time = length /
\* (speed_limit / 3.6) and current_flow = 0, so that capacity > 0 when
\* lanes > 0; the roads of the network the loop starts from are stored so,
\* and no step of the loop changes the length, speed_limit, lanes,
\* travel_time or capacity of a road or the set of roads
C35_RoadAttributes ==
    /\ \A a \in RoadArguments : StoredAsClaimed(AddRoad(a[1], a[2], a[3]), a)
    /\ \A e \in Edges(city_graph) :
          \E a \in RoadArguments : StoredAsClaimed(city_graph[e], a)
    /\ [][/\ Edges(city_graph') = Edges(city_graph)
          /\ \A e \in Edges(city_graph) :
                city_graph'[e] =
                   [city_graph[e] EXCEPT !.current_flow = city_graph'[e].current_flow]]_vars

\* a vehicle is counted on the road of two lanes after ticks of the loop
C35_Witness ==
    /\ simulation_time > 0
    /\ \E e \in Edges(city_graph) :
          /\ city_graph[e].lanes = 2
          /\ city_graph[e].capacity = 2 * 1800
          /\ city_graph[e].current_flow > 0


\* ------------------------------------------------------------------------
\* Claims about the durations of registered lights (checked under SpecSignal)
\* ------------------------------------------------------------------------

\* C36: in every state, whatever add_phase, add_traffic_light and update
\* calls have been made, the phase durations of every light of the system
\* sum to its cycle_time
C36_RegisteredSumIsCycle ==
    \A id \in Registered :
       SumDurations(LightAt(id).phases) = LightAt(id).cycle_time


\* ------------------------------------------------------------------------
\* Claims about the way of a vehicle along its route (checked under Spec)
\* ------------------------------------------------------------------------

\* the index in its route of the node the vehicle is located at
PositionIndex(v) == NextNodeIndex(v.route, v.current_position) - 1

\* C37: a vehicle starts at route[0]; it is always located at a node of its
\* route, and when it is on an edge the edge goes from that node to the next
\* node of the route; it changes node only by clearing the edge it is on, to
\* the next node of the route, and it enters no edge but the one from its
\* node to the next node of the route
C37_FollowsRoute ==
    /\ \A i \in 1..Len(vehicles) :
          vehicles[i].current_position = vehicles[i].route[1]
    /\ [](\A i \in 1..Len(vehicles) :
            LET v == vehicles[i]
            IN  /\ \E k \in 1..Len(v.route) : v.route[k] = v.current_position
                /\ v.current_edge # NoEdge
                      => /\ PositionIndex(v) < Len(v.route)
                         /\ v.current_edge = NextEdge(v))
    /\ [][\A i \in 1..Len(vehicles) :
             LET v == vehicles[i]
                 w == vehicles'[i]
             IN  /\ w.current_position # v.current_position
                       => /\ v.current_edge # NoEdge
                          /\ w.current_edge = NoEdge
                          /\ EpsLeqZero(w.travel_time_remaining)
                          /\ w.current_position = v.current_edge[2]
                          /\ PositionIndex(w) = PositionIndex(v) + 1
                 /\ v.current_edge = NoEdge /\ w.current_edge # NoEdge
                       => w.current_edge = NextEdge(v)
                 /\ v.current_edge # NoEdge /\ w.current_edge # NoEdge
                       => w.current_edge = v.current_edge]_vars

\* a vehicle with a route of three nodes has reached the last of them
C37_Witness ==
    \E i \in 1..Len(vehicles) :
       /\ Len(vehicles[i].route) = 3
       /\ vehicles[i].current_position = vehicles[i].route[3]
       /\ vehicles[i].completion_time # -1


\* ------------------------------------------------------------------------
\* Claims about a vehicle over one tick (checked under SpecOrder, where
\* replay.initial is the state the tick started from)
\* ------------------------------------------------------------------------

\* how far along its route a vehicle is: two for every node behind it, one
\* more when it is on the edge out of its node
Stage(v) == 2 * PositionIndex(v) + (IF v.current_edge # NoEdge THEN 1 ELSE 0)

\* move_vehicles has gone through the whole list
MovesDone == pc = "move" /\ idx > Len(vehicles)

\* C38: over one tick a vehicle makes at most one transition: one that
\* entered an edge in the tick still has the whole travel_time_remaining it
\* entered with, and one that arrived at a node in the tick is not on its
\* next edge and has not had wait time added by the light of the node
C38_OneTransitionPerTick ==
    MovesDone
       => \A id \in DOMAIN ById(vehicles) :
             LET v == ById(replay.initial.vehicles)[id]
                 w == ById(vehicles)[id]
             IN  /\ Stage(w) - Stage(v) \in {0, 1}
                 /\ v.current_edge = NoEdge /\ w.current_edge # NoEdge
                       => /\ w.travel_time_remaining =
                                EpsMul(city_graph[w.current_edge].travel_time,
                                       congestion_factor(city_graph[w.current_edge]))
                          /\ w.progress_on_edge = ProgressZero
                 /\ v.current_edge # NoEdge /\ w.current_edge = NoEdge
                       => /\ w.current_position = v.current_edge[2]
                          /\ w.total_wait_time = v.total_wait_time

\* a vehicle that entered an edge in an earlier tick has arrived in this
\* tick at a node that is not the last of its route, the light there being
\* red for its next edge
C38_Witness ==
    /\ MovesDone
    /\ \E id \in DOMAIN ById(vehicles) :
          LET v == ById(replay.initial.vehicles)[id]
              w == ById(vehicles)[id]
          IN  /\ v.current_edge # NoEdge
              /\ w.current_edge = NoEdge
              /\ w.current_position # LastNode(w.route)
              /\ w.current_position \in Registered
              /\ ~SystemIsGreen(NextEdge(w))


\* ------------------------------------------------------------------------
\* Claims about the end of the run (checked under SpecLive)
\* ------------------------------------------------------------------------

\* every edge of the route of v that starts at a node with a light is allowed
\* by a phase of positive duration of that light
RoutePermitted(v) ==
    \A k \in 1..(Len(v.route) - 1) :
       v.route[k] \in Registered
          => \E n \in 1..Len(LightAt(v.route[k]).phases) :
                /\ LightAt(v.route[k]).phases[n].duration > 0
                /\ <<v.route[k], v.route[k + 1]>>
                      \in LightAt(v.route[k]).phases[n].allowed_edges

\* C39: the loop runs to its end, and by then every vehicle that has entered
\* and whose route is permitted by the lights on it has a completion_time
\* (the ticks of the run are enough for every route of the networks to be
\* travelled, waits at the lights included)
C39_EventuallyCompleted ==
    <>(/\ pc = "done"
       /\ \A i \in 1..Len(vehicles) :
             Entered(vehicles[i]) /\ RoutePermitted(vehicles[i])
                => vehicles[i].completion_time # -1)

\* the loop of run_simulation comes to its end
LoopTerminates == <>(pc = "done")

\* simulation_time starts at 0 and changes only at the end of a tick begun
\* below total_time, by time_step; the loop is over exactly from the first
\* value that is not below total_time
ClockByTimeStep ==
    /\ simulation_time = 0
    /\ [][simulation_time' # simulation_time
             => /\ pc = "move" /\ idx > Len(vehicles)
                /\ simulation_time < total_time
                /\ simulation_time' = simulation_time + time_step]_vars
    /\ [](pc = "done" <=> simulation_time >= total_time)
    /\ [](pc = "done" => simulation_time - time_step < total_time)

\* the list returned holds one record for every tick run
RecordPerTick ==
    [](pc = "done" => Len(results) * time_step = simulation_time)

\* C40: run_simulation terminates: simulation_time starts at 0 and grows by
\* time_step after each tick, one tick is run for each value below total_time
\* and the loop stops at the first value not below it, nothing ends the run
\* earlier when it is not drawn, and the list returned holds one record for
\* every tick run
C40_RunSimulation ==
    /\ LoopTerminates
    /\ ClockByTimeStep
    /\ RecordPerTick

====
